---- MODULE Spec2Model ----
(***************************************************************************)
(* Pacific Properties Revenue Engine: the core formulas, the monthly error *)
(* forecasting, the weekly Bell Curve review, the promotion scan and the   *)
(* generateReport run that selects the comparable tier and calls them.     *)
(*                                                                         *)
(* Numbers.  The engine computes on JavaScript numbers.  The model         *)
(* computes on exact rationals <<n, d>> in lowest terms with d > 0;        *)
(* <<1, 0>> and <<-1, 0>> stand for +Infinity and -Infinity and <<0, 0>>   *)
(* for NaN, which is what a division by zero yields in the engine.         *)
(* A decimal of the source is written as its fraction and stands for the   *)
(* double nearest to it.  Values are carried exactly; where the engine     *)
(* compares a computed number with another and the exact values are equal, *)
(* the comparison is made on the doubles the engine computes (IEEE 754,    *)
(* round to nearest even), so that the rounding of a product or quotient   *)
(* decides the branch as it does in the engine.                            *)
(***************************************************************************)
EXTENDS Integers, Sequences, FiniteSets, TLC

(* ------------------------------------------------------------------------ *)
(* Rational arithmetic                                                      *)
(* ------------------------------------------------------------------------ *)

Abs(x) == IF x < 0 THEN -x ELSE x

RECURSIVE GCD(_, _)
GCD(a, b) == IF b = 0 THEN a ELSE GCD(b, a % b)

\* n/d divided through by g = gcd(|n|, |d|), the sign carried by the numerator
Reduce(n, d, g) ==
    IF g = 0 THEN <<0, 0>>
    ELSE IF d < 0 THEN <<(-n) \div g, (-d) \div g>>
    ELSE <<n \div g, d \div g>>

\* n/d in lowest terms; a zero denominator gives +-Infinity or NaN
Q(n, d) == Reduce(n, d, GCD(Abs(n), Abs(d)))

QInt(i) == <<i, 1>>
Infinity == <<1, 0>>
IsNaN(a) == a = <<0, 0>>
IsFinite(a) == a[2] # 0

\* a * b with the common factors g1 of a[1], b[2] and g2 of b[1], a[2] cancelled
\* before multiplying
CrossMul(a, b, g1, g2) ==
    IF g1 = 0 \/ g2 = 0 THEN Q(a[1] * b[1], a[2] * b[2])
    ELSE <<(a[1] \div g1) * (b[1] \div g2), (a[2] \div g2) * (b[2] \div g1)>>

QMul(a, b) == CrossMul(a, b, GCD(Abs(a[1]), b[2]), GCD(Abs(b[1]), a[2]))

\* a + b of two finite numbers over the common factor g of their denominators
AddOver(a, b, g) ==
    Q(a[1] * (b[2] \div g) + b[1] * (a[2] \div g), (a[2] \div g) * b[2])

QAdd(a, b) ==
    IF a[2] = 0 \/ b[2] = 0
    THEN (IF IsNaN(a) \/ IsNaN(b) THEN <<0, 0>>
          ELSE IF a[2] # 0 THEN b
          ELSE IF b[2] # 0 THEN a
          ELSE IF a = b THEN a ELSE <<0, 0>>)
    ELSE AddOver(a, b, GCD(a[2], b[2]))

QNeg(a) == <<-a[1], a[2]>>
QSub(a, b) == QAdd(a, QNeg(b))

\* 1 / b for b with a nonzero numerator
QInv(b) == IF b[1] < 0 THEN <<-b[2], -b[1]>> ELSE <<b[2], b[1]>>

\* a / b as JavaScript divides: x/0 is +-Infinity, 0/0 is NaN
QDiv(a, b) ==
    IF b[1] = 0 THEN (IF b[2] = 0 THEN <<0, 0>> ELSE Q(a[1], 0))
    ELSE QMul(a, QInv(b))

\* comparisons; every comparison with NaN is false
QLt(a, b) ==
    /\ ~IsNaN(a)
    /\ ~IsNaN(b)
    /\ IF a[2] = 0 /\ b[2] = 0 THEN a[1] < b[1] ELSE a[1] * b[2] < b[1] * a[2]
QLe(a, b) == ~IsNaN(a) /\ ~IsNaN(b) /\ (a = b \/ QLt(a, b))
QGt(a, b) == QLt(b, a)
QGe(a, b) == QLe(b, a)

\* Math.max / Math.min: NaN if either argument is NaN
QMax(a, b) == IF IsNaN(a) \/ IsNaN(b) THEN <<0, 0>> ELSE IF QLt(a, b) THEN b ELSE a
QMin(a, b) == IF IsNaN(a) \/ IsNaN(b) THEN <<0, 0>> ELSE IF QLt(b, a) THEN b ELSE a

(* ------------------------------------------------------------------------ *)
(* IEEE 754 double arithmetic (the arithmetic of a JavaScript number).      *)
(* A natural number is a sequence of limbs in base 2^15, lowest first and   *)
(* without leading zero limbs; a finite double is <<s, m, e>>, the value    *)
(* s * m * 2^e with s in {1, -1} and 2^52 <= m < 2^53, or <<1, <<>>, 0>>    *)
(* for zero. Infinity is <<s, <<>>, 0, "Infinity">> and NaN is              *)
(* <<0, <<>>, 0, "NaN">>. Results are rounded to nearest, ties to even.     *)
(* Overflow, subnormals and the sign of zero are not represented.           *)
(* ------------------------------------------------------------------------ *)

RECURSIVE Pow2(_)
Pow2(j) == IF j = 0 THEN 1 ELSE 2 * Pow2(j - 1)

RECURSIVE IntBitLen(_)
IntBitLen(n) == IF n = 0 THEN 0 ELSE 1 + IntBitLen(n \div 2)

RECURSIVE BTrim(_)
BTrim(a) ==
    IF a = <<>> THEN a
    ELSE IF a[Len(a)] = 0 THEN BTrim(SubSeq(a, 1, Len(a) - 1))
    ELSE a

\* the limbs of an integer 0 <= n < 2^31
BNat(n) == BTrim(<<n % 32768, (n \div 32768) % 32768, n \div 1073741824>>)

BLimb(a, i) == IF i <= Len(a) THEN a[i] ELSE 0

RECURSIVE BCmpFrom(_, _, _)
BCmpFrom(a, b, i) ==
    IF i = 0 THEN 0
    ELSE IF a[i] > b[i] THEN 1
    ELSE IF a[i] < b[i] THEN -1
    ELSE BCmpFrom(a, b, i - 1)

\* 1, 0 or -1 as a > b, a = b or a < b
BCmp(a, b) ==
    IF Len(a) > Len(b) THEN 1
    ELSE IF Len(a) < Len(b) THEN -1
    ELSE BCmpFrom(a, b, Len(a))

RECURSIVE BAddFrom(_, _, _, _)
BAddFrom(a, b, i, carry) ==
    IF i > Len(a) /\ i > Len(b)
    THEN (IF carry = 0 THEN <<>> ELSE <<carry>>)
    ELSE LET s == BLimb(a, i) + BLimb(b, i) + carry
         IN  <<s % 32768>> \o BAddFrom(a, b, i + 1, s \div 32768)

BAdd(a, b) == BAddFrom(a, b, 1, 0)

RECURSIVE BSubFrom(_, _, _, _)
BSubFrom(a, b, i, borrow) ==
    IF i > Len(a) THEN <<>>
    ELSE LET s == a[i] - BLimb(b, i) - borrow
         IN  <<IF s < 0 THEN s + 32768 ELSE s>>
                 \o BSubFrom(a, b, i + 1, IF s < 0 THEN 1 ELSE 0)

\* a - b for a >= b
BSub(a, b) == BTrim(BSubFrom(a, b, 1, 0))

RECURSIVE BMulSmallFrom(_, _, _, _)
BMulSmallFrom(a, f, i, carry) ==
    IF i > Len(a)
    THEN (IF carry = 0 THEN <<>> ELSE <<carry>>)
    ELSE LET p == a[i] * f + carry
         IN  <<p % 32768>> \o BMulSmallFrom(a, f, i + 1, p \div 32768)

\* a * f for one limb f
BMulSmall(a, f) == BTrim(BMulSmallFrom(a, f, 1, 0))

BShlLimbs(a, k) == IF a = <<>> THEN a ELSE [i \in 1..k |-> 0] \o a

RECURSIVE BMulFrom(_, _, _)
BMulFrom(a, b, j) ==
    IF j > Len(b) THEN <<>>
    ELSE BAdd(BShlLimbs(BMulSmall(a, b[j]), j - 1), BMulFrom(a, b, j + 1))

BMul(a, b) == BTrim(BMulFrom(a, b, 1))

\* a * 2^k and floor(a / 2^k)
BShl(a, k) == BShlLimbs(BMulSmall(a, Pow2(k % 15)), k \div 15)

RECURSIVE BShrFrom(_, _, _)
BShrFrom(b, p, i) ==
    IF i > Len(b) THEN <<>>
    ELSE <<(b[i] \div p) + (BLimb(b, i + 1) % p) * (32768 \div p)>> \o BShrFrom(b, p, i + 1)

BShr(a, k) ==
    IF (k \div 15) >= Len(a) THEN <<>>
    ELSE BTrim(BShrFrom(SubSeq(a, (k \div 15) + 1, Len(a)), Pow2(k % 15), 1))

BBitLen(a) == IF a = <<>> THEN 0 ELSE 15 * (Len(a) - 1) + IntBitLen(a[Len(a)])

\* the largest q <= qhat with d * q <= r
RECURSIVE BFit(_, _, _)
BFit(d, r, qhat) == IF BCmp(BMulSmall(d, qhat), r) > 0 THEN BFit(d, r, qhat - 1) ELSE qhat

\* the next quotient limb of r by d: estimated from the two top limbs of r
\* and the top limb of d, capped at 2^15 - 1, then corrected
BQuotientLimb(d, r, est) == BFit(d, r, IF est > 32767 THEN 32767 ELSE est)

\* long division, limb i of n down to the lowest, for a divisor d whose top
\* limb is at least 2^14; q holds the quotient limbs found so far and r the
\* running remainder. In CHOOSE x \in { F(v) : v \in { e } } : TRUE, here
\* and below, e is evaluated once and F applied to its value.
RECURSIVE BDivFrom(_, _, _, _, _)
BDivStep(n, d, i, q, r2) ==
    CHOOSE x \in { BDivFrom(n, d, i - 1, <<qi>> \o q, BSub(r2, BMulSmall(d, qi))) :
                   qi \in { BQuotientLimb(d, r2, (BLimb(r2, Len(d) + 1) * 32768
                                                   + BLimb(r2, Len(d))) \div d[Len(d)]) } } : TRUE

BDivFrom(n, d, i, q, r) ==
    IF i = 0 THEN <<BTrim(q), r>>
    ELSE CHOOSE x \in { BDivStep(n, d, i, q, r2) : r2 \in { BTrim(<<n[i]>> \o r) } } : TRUE

\* <<quotient, remainder>> of n by d # 0; the remainder is that of the
\* operands scaled by the same power of two, zero exactly when d divides n
BDivMod(n, d) ==
    CHOOSE x \in { BDivFrom(ns, ds, Len(ns), <<>>, <<>>) :
                   ns \in { BShl(n, 15 - IntBitLen(d[Len(d)])) },
                   ds \in { BShl(d, 15 - IntBitLen(d[Len(d)])) } } : TRUE

DblZero == <<1, <<>>, 0>>

\* the doubles that are not finite: Infinity with its sign, and NaN; they
\* carry a fourth component, which no finite double has
DblInfinity(s) == <<s, <<>>, 0, "Infinity">>
DblNaN == <<0, <<>>, 0, "NaN">>
DblIsNaN(a) == Len(a) = 4 /\ a[1] = 0
DblIsInfinite(a) == Len(a) = 4 /\ a[1] # 0

\* s * r * 2^e for a mantissa r of 53 bits or, after a carry, of 54
DblNormal(s, r, e) == IF BBitLen(r) = 54 THEN <<s, BShr(r, 1), e + 1>> ELSE <<s, r, e>>

\* hi, the top 53 bits, rounded by the bits below: c is 1, 0 or -1 as they
\* are above, at or below one half; a half rounds to even unless sticky
DblRoundUp(s, hi, c, sticky, e) ==
    DblNormal(s, IF c > 0 \/ (c = 0 /\ (sticky \/ hi[1] % 2 = 1)) THEN BAdd(hi, <<1>>) ELSE hi, e)

\* m of 53 + t bits, t > 0, with top 53 bits hi
DblRoundHi(s, m, sticky, e, t, hi) ==
    DblRoundUp(s, hi, BCmp(BSub(m, BShl(hi, t)), BShl(<<1>>, t - 1)), sticky, e + t)

\* m of b bits
DblRoundBits(s, m, sticky, e, b) ==
    IF b = 0 THEN DblZero
    ELSE IF b <= 53 THEN <<s, BShl(m, 53 - b), e - (53 - b)>>
    ELSE DblRoundHi(s, m, sticky, e, b - 53, BShr(m, b - 53))

\* the double nearest to s * (m + f) * 2^e, where 0 <= f < 1 and sticky says
\* whether f > 0 (m has more than 53 bits whenever sticky holds)
DblRound(s, m, sticky, e) == DblRoundBits(s, m, sticky, e, BBitLen(m))

DblNeg(a) == IF a[2] = <<>> THEN a ELSE <<-a[1], a[2], a[3]>>

\* 1, 0 or -1 as a > b, a = b or a < b, for finite a and b
DblCmpFinite(a, b) ==
    LET sa == IF a[2] = <<>> THEN 0 ELSE a[1]
        sb == IF b[2] = <<>> THEN 0 ELSE b[1]
    IN  IF sa # sb THEN (IF sa > sb THEN 1 ELSE -1)
        ELSE IF sa = 0 THEN 0
        ELSE IF a[3] # b[3] THEN (IF a[3] > b[3] THEN sa ELSE -sa)
        ELSE sa * BCmp(a[2], b[2])

\* 1, 0 or -1 as a > b, a = b or a < b; 2 when a or b is NaN, which is
\* neither above, at nor below any number
DblCmp(a, b) ==
    IF DblIsNaN(a) \/ DblIsNaN(b) THEN 2
    ELSE IF DblIsInfinite(a)
    THEN (IF DblIsInfinite(b) /\ b[1] = a[1] THEN 0 ELSE a[1])
    ELSE IF DblIsInfinite(b) THEN -b[1]
    ELSE DblCmpFinite(a, b)

\* Math.max(a, b): NaN when an argument is NaN
DblMax(a, b) ==
    IF DblIsNaN(a) \/ DblIsNaN(b) THEN DblNaN
    ELSE IF DblCmp(b, a) > 0 THEN b ELSE a

\* The exact results <<s, m, sticky, e>> of the operators, before rounding.
\* a * b
DblProduct(a, b) == <<a[1] * b[1], BMul(a[2], b[2]), FALSE, a[3] + b[3]>>

\* s * (n / d) * 2^e, the quotient carried to k more bits, at least 56 in all
DblQuotientBits(s, n, d, e, k) ==
    CHOOSE x \in { <<s, qr[1], qr[2] # <<>>, e - k>> : qr \in { BDivMod(BShl(n, k), d) } } : TRUE

\* a / b for b not zero; the mantissas may be any natural numbers
DblQuotient(a, b) ==
    IF a[2] = <<>> THEN <<1, <<>>, FALSE, 0>>
    ELSE DblQuotientBits(a[1] * b[1], a[2], b[2], a[3] - b[3],
                         IF 56 + BBitLen(b[2]) > BBitLen(a[2])
                         THEN 56 + BBitLen(b[2]) - BBitLen(a[2]) ELSE 0)

\* sa * ma * 2^e + sb * mb * 2^e
DblSumAligned(sa, ma, sb, mb, e) ==
    <<IF sa = sb \/ BCmp(ma, mb) >= 0 THEN sa ELSE sb,
      IF sa = sb THEN BAdd(ma, mb)
      ELSE IF BCmp(ma, mb) > 0 THEN BSub(ma, mb) ELSE BSub(mb, ma),
      FALSE, e>>

\* a + b for a and b not zero, e the smaller exponent
DblSumAt(a, b, e) == DblSumAligned(a[1], BShl(a[2], a[3] - e), b[1], BShl(b[2], b[3] - e), e)

\* a + b
DblSum(a, b) ==
    IF a[2] = <<>> THEN <<b[1], b[2], FALSE, b[3]>>
    ELSE IF b[2] = <<>> THEN <<a[1], a[2], FALSE, a[3]>>
    ELSE DblSumAt(a, b, IF a[3] < b[3] THEN a[3] ELSE b[3])

\* the exact result of the engine's operator op on a and b: "*", "/", "+",
\* "-" or "max" (Math.max)
DblExact(op, a, b) ==
    IF op = "*" THEN DblProduct(a, b)
    ELSE IF op = "/" THEN DblQuotient(a, b)
    ELSE IF op = "max" THEN DblSum(DblMax(a, b), DblZero)
    ELSE DblSum(a, IF op = "-" THEN DblNeg(b) ELSE b)

\* the double the engine's operator op yields on finite doubles a and b, b
\* not zero when op is "/"
DblApplyFinite(op, a, b) ==
    CHOOSE x \in { DblRound(u[1], u[2], u[3], u[4]) : u \in { DblExact(op, a, b) } } : TRUE

\* a / b when an operand is not finite or b is zero: NaN for NaN operands,
\* for Infinity / Infinity and for 0 / 0; 0 for a finite a over Infinity;
\* else Infinity with the sign of the quotient
DblDivideSpecial(a, b) ==
    IF DblIsNaN(a) \/ DblIsNaN(b) THEN DblNaN
    ELSE IF DblIsInfinite(a) /\ DblIsInfinite(b) THEN DblNaN
    ELSE IF DblIsInfinite(b) THEN DblZero
    ELSE IF a = DblZero /\ b = DblZero THEN DblNaN
    ELSE DblInfinity(a[1] * b[1])

\* a * b when an operand is not finite: NaN for NaN operands and for
\* Infinity * 0, else Infinity with the sign of the product
DblTimesSpecial(a, b) ==
    IF DblIsNaN(a) \/ DblIsNaN(b) \/ a = DblZero \/ b = DblZero THEN DblNaN
    ELSE DblInfinity(a[1] * b[1])

\* a + b when an operand is not finite: NaN for NaN operands and for
\* Infinity + -Infinity, else the infinite operand
DblPlusSpecial(a, b) ==
    IF DblIsNaN(a) \/ DblIsNaN(b) THEN DblNaN
    ELSE IF DblIsInfinite(a) /\ DblIsInfinite(b) /\ a[1] # b[1] THEN DblNaN
    ELSE IF DblIsInfinite(a) THEN a ELSE b

\* the double the engine's operator op yields on the doubles a and b
DblApply(op, a, b) ==
    IF Len(a) = 3 /\ Len(b) = 3 /\ ~(op = "/" /\ b = DblZero) THEN DblApplyFinite(op, a, b)
    ELSE IF op = "/" THEN DblDivideSpecial(a, b)
    ELSE IF op = "*" THEN DblTimesSpecial(a, b)
    ELSE IF op = "max" THEN DblMax(a, b)
    ELSE IF op = "+" THEN DblPlusSpecial(a, b)
    ELSE DblPlusSpecial(a, IF DblIsInfinite(b) THEN DblInfinity(-b[1]) ELSE b)

\* the integer n, -2^31 < n < 2^31, with its mantissa as it is
DblInt(n) == <<IF n < 0 THEN -1 ELSE 1, BNat(IF n < 0 THEN -n ELSE n), 0>>

\* the doubles of the two-decimal numbers 0.00, 0.01, .. 2.00
HundredthsDoubles == [ n \in 0..200 |-> DblApply("/", DblInt(n), DblInt(100)) ]

\* x is one of them
IsHundredth(x) ==
    x[2] > 0 /\ 100 % x[2] = 0 /\ x[1] >= 0 /\ x[1] <= 200 /\ x[1] * (100 \div x[2]) <= 200

\* The engine's arithmetic expressions, written as trees so that they are
\* evaluated on doubles where a comparison needs it: Num(x) is the number
\* the decimal or fraction x of small integers denotes, the others are the
\* engine's *, /, +, - and Math.max.
Num(x) == <<"num", x>>
Times(a, b) == <<"*", a, b>>
Over(a, b) == <<"/", a, b>>
Plus(a, b) == <<"+", a, b>>
Minus(a, b) == <<"-", a, b>>
MaxOf(a, b) == <<"max", a, b>>

\* the double the engine computes for the expression e: a number is the
\* double nearest to it, the quotient of its numerator and denominator; the
\* operands of an operator are evaluated first
RECURSIVE DblEval(_)
DblEval(e) ==
    IF e[1] = "num" /\ IsHundredth(e[2]) THEN HundredthsDoubles[e[2][1] * (100 \div e[2][2])]
    ELSE CHOOSE x \in { DblApply(IF e[1] = "num" THEN "/" ELSE e[1], a, b) :
                        a \in { IF e[1] = "num" THEN DblInt(e[2][1]) ELSE DblEval(e[2]) },
                        b \in { IF e[1] = "num" THEN DblInt(e[2][2]) ELSE DblEval(e[3]) } } : TRUE

\* 1, 0 or -1 as the engine's value of ex is above, equal to or below that of ey
DblCompare(ex, ey) ==
    CHOOSE c \in { DblCmp(a, b) : a \in { DblEval(ex) }, b \in { DblEval(ey) } } : TRUE

\* the double a decimal literal or a fraction n / d of small integers denotes
ToDouble(x) == DblEval(Num(x))

DblMul(a, b) == DblApply("*", a, b)
DblDiv(a, b) == DblApply("/", a, b)
DblAdd(a, b) == DblApply("+", a, b)
DblSub(a, b) == DblApply("-", a, b)

\* Math.max(x, floor): Infinity for an infinite x above the floor, NaN for a
\* NaN x
DblFloored(x, floor) == MaxOf(Num(x), Num(floor))

\* The comparisons the engine makes on computed numbers. x and y are the
\* exact values, ex and ey the expressions the engine evaluates for them.
\* Exact values that differ are compared as they are; equal exact values are
\* compared as the doubles, whose rounding decides the comparison.
RLt(x, y, ex, ey) == IF x = y /\ IsFinite(x) THEN DblCompare(ex, ey) < 0 ELSE QLt(x, y)
RLe(x, y, ex, ey) == IF x = y /\ IsFinite(x) THEN DblCompare(ex, ey) <= 0 ELSE QLe(x, y)
RGt(x, y, ex, ey) == RLt(y, x, ey, ex)
RGe(x, y, ex, ey) == RLe(y, x, ey, ex)

(* ------------------------------------------------------------------------ *)
(* Configuration (config.ts); each decimal is written as its fraction       *)
(* ------------------------------------------------------------------------ *)

APS_MIN == <<4, 5>>                  \* 0.80
APS_MAX == <<8, 5>>                  \* 1.60
PID_HISTORY == <<7, 10>>             \* 0.70
PID_INDEX == <<3, 10>>               \* 0.30
VELOCITY_GAP_THRESHOLD == <<3, 20>>  \* 0.15
PEAK_ADR_MULTIPLIER == <<5, 4>>      \* 1.25

MONTHLY ==
    [ MIN_REVPAR_THRESHOLD           |-> <<1, 1>>,
      MIN_OCCUPANCY_THRESHOLD        |-> <<1, 100>>,  \* 0.01
      MIN_ADR_THRESHOLD              |-> <<1, 1>>,
      UNDERPRICING_OCC_MULTIPLIER    |-> <<3, 2>>,    \* 1.5
      UNDERPRICING_REVPAR_MULTIPLIER |-> <<4, 5>>,    \* 0.8
      OVERPRICING_OCC_MULTIPLIER     |-> <<7, 10>>,   \* 0.7
      OVERPRICING_REVPAR_MULTIPLIER  |-> <<4, 5>>,    \* 0.8
      OVERPRICING_CORRECTION_FACTOR  |-> <<9, 10>>,   \* 0.90
      CORRECTION_SMOOTHING_DIVISOR   |-> <<2, 1>>,
      MAX_UPWARD_CORRECTION          |-> <<3, 2>>,    \* 1.50
      MAX_DOWNWARD_CORRECTION        |-> <<4, 5>> ]   \* 0.80

WEEKLY ==
    [ AUDIT_LOOKAHEAD_DAYS           |-> 14,
      FORWARD_BOOKING_WINDOW         |-> <<90, 1>>,
      DECAY_WINDOW_PERCENTAGE        |-> <<3, 10>>,   \* 0.30
      MIN_DECAY_MULTIPLIER           |-> <<7, 10>>,   \* 0.70
      APS_JUSTIFIED_PRICE_THRESHOLD  |-> <<1, 10>>,   \* 0.10
      EARLY_DEMAND_OCC_MULTIPLIER    |-> <<5, 2>>,    \* 2.5
      EARLY_DEMAND_RATE_INCREASE_MIN |-> <<1, 5>>,    \* 0.20
      EARLY_DEMAND_RATE_INCREASE_MAX |-> <<1, 4>>,    \* 0.25
      FRONT_HALF_LAGGING_THRESHOLD   |-> <<1, 5>>,    \* 0.20
      LAGGING_OCCUPANCY_THRESHOLD    |-> <<3, 20>> ]  \* 0.15

MARKET_STATE ==
    [ HOT_OCCUPANCY_THRESHOLD  |-> <<3, 4>>,     \* 0.75
      COLD_OCCUPANCY_THRESHOLD |-> <<9, 20>>,    \* 0.45
      HOT_PACE_THRESHOLD       |-> <<11, 10>>,   \* 1.10
      COLD_PACE_THRESHOLD      |-> <<9, 10>> ]   \* 0.90

OPERATING_MODES ==
    [ AGGRESSIVE |-> [name |-> "Aggressive", baseDiscount |-> <<1, 20>>,
                      maxDiscount |-> <<3, 20>>, occupancyThreshold |-> <<1, 10>>],
      STANDARD   |-> [name |-> "Standard", baseDiscount |-> <<1, 10>>,
                      maxDiscount |-> <<1, 5>>, occupancyThreshold |-> <<3, 20>>],
      DEFENSIVE  |-> [name |-> "Defensive", baseDiscount |-> <<3, 20>>,
                      maxDiscount |-> <<3, 10>>, occupancyThreshold |-> <<3, 20>>] ]

\* mutant: the second bracket starts at day 5, leaving day 4 to the default
SLIDING_SCALE_BRACKETS_gap ==
    << [minDays |-> <<0, 1>>,  maxDays |-> <<3, 1>>,  multiplier |-> <<2, 1>>, label |-> "0-3d (2x)"],
       [minDays |-> <<5, 1>>,  maxDays |-> <<7, 1>>,  multiplier |-> <<3, 2>>, label |-> "4-7d (1.5x)"],
       [minDays |-> <<8, 1>>,  maxDays |-> <<14, 1>>, multiplier |-> <<5, 4>>, label |-> "8-14d (1.25x)"],
       [minDays |-> <<15, 1>>, maxDays |-> <<30, 1>>, multiplier |-> <<1, 1>>, label |-> "15-30d (1x)"],
       [minDays |-> <<31, 1>>, maxDays |-> <<1, 0>>,  multiplier |-> <<3, 4>>, label |-> "31+d (0.75x)"] >>

SLIDING_SCALE_BRACKETS ==
    << [minDays |-> <<0, 1>>,  maxDays |-> <<3, 1>>,  multiplier |-> <<2, 1>>, label |-> "0-3d (2x)"],
       [minDays |-> <<4, 1>>,  maxDays |-> <<7, 1>>,  multiplier |-> <<3, 2>>, label |-> "4-7d (1.5x)"],
       [minDays |-> <<8, 1>>,  maxDays |-> <<14, 1>>, multiplier |-> <<5, 4>>, label |-> "8-14d (1.25x)"],
       [minDays |-> <<15, 1>>, maxDays |-> <<30, 1>>, multiplier |-> <<1, 1>>, label |-> "15-30d (1x)"],
       [minDays |-> <<31, 1>>, maxDays |-> <<1, 0>>,  multiplier |-> <<3, 4>>, label |-> "31+d (0.75x)"] >>

LAST_MINUTE ==
    [ MAX_DAYS_OUT        |-> <<7, 1>>,
      OCC_THRESHOLD       |-> <<1, 2>>,   \* 0.50
      DISCOUNT_PERCENTAGE |-> <<1, 5>> ]  \* 0.20

EXTENDED_STAY ==
    [ PROPERTY_MAX_AVG_STAY |-> <<3, 1>>,
      MARKET_MIN_AVG_STAY   |-> <<4, 1>>,
      DISCOUNT_LABEL        |-> "10% for 5+ nights",
      DISCOUNT_PERCENTAGE   |-> <<1, 10>> ]  \* 0.10

(* ------------------------------------------------------------------------ *)
(* Core formulas (formulas.ts)                                              *)
(* ------------------------------------------------------------------------ *)

calculatePerformanceIndex(myRevPAR, marketRevPAR) ==
    IF QLe(marketRevPAR, QInt(0)) THEN QInt(1) ELSE QDiv(myRevPAR, marketRevPAR)

\* mutant: the weighted sum is returned without the clamp
calculateNewAPS_unclamped(previousAPS, index) ==
    QAdd(QMul(previousAPS, PID_HISTORY), QMul(index, PID_INDEX))

calculateNewAPS(previousAPS, index) ==
    LET newAPS == QAdd(QMul(previousAPS, PID_HISTORY), QMul(index, PID_INDEX))
    IN  QMax(APS_MIN, QMin(newAPS, APS_MAX))

calculateAnnualTarget(marketAnnualRevPAR, aps) == QMul(marketAnnualRevPAR, aps)

calculateMinPrice(market20thPctl, lastYearLowest) == QMax(market20thPctl, lastYearLowest)

\* mutant: the peak ADR is scaled by the APS only
calculateMaxPrice_noMultiplier(peakFutureADR, aps) == QMul(peakFutureADR, aps)

calculateMaxPrice(peakFutureADR, aps) == QMul(QMul(peakFutureADR, aps), PEAK_ADR_MULTIPLIER)

calculateDynamicCentroid(avgFutureMarketADR, aps) == QMul(avgFutureMarketADR, aps)

calculateBasePrice(avgADR, aps) == QMul(avgADR, aps)

(* ------------------------------------------------------------------------ *)
(* Error forecasting, monthly (error-forecasting.ts)                        *)
(* ------------------------------------------------------------------------ *)

\* revPAR || 0 : a falsy revPAR (0 or NaN) becomes 0
deriveADR(revPAR, occupancy) ==
    IF QLe(occupancy, QInt(0))
    THEN (IF IsNaN(revPAR) \/ revPAR[1] = 0 THEN QInt(0) ELSE revPAR)
    ELSE QDiv(revPAR, occupancy)

calculatePerformanceMultipliers(ourOcc, ourRevPAR, ourADR, compOcc, compRevPAR, compADR) ==
    LET safeCompOcc    == QMax(compOcc, MONTHLY.MIN_OCCUPANCY_THRESHOLD)
        safeCompRevPAR == QMax(compRevPAR, MONTHLY.MIN_REVPAR_THRESHOLD)
        safeCompADR    == QMax(compADR, MONTHLY.MIN_ADR_THRESHOLD)
    IN  [ occupancy |-> QDiv(ourOcc, safeCompOcc),
          revPAR    |-> QDiv(ourRevPAR, safeCompRevPAR),
          adr       |-> QDiv(ourADR, safeCompADR) ]

\* the occupancy and revPAR multipliers of calculatePerformanceMultipliers as
\* the expressions the engine evaluates from its arguments
performanceMultiplierDoubles(ourOcc, ourRevPAR, compOcc, compRevPAR) ==
    [ occupancy |-> Over(Num(ourOcc), DblFloored(compOcc, MONTHLY.MIN_OCCUPANCY_THRESHOLD)),
      revPAR    |-> Over(Num(ourRevPAR),
                         DblFloored(compRevPAR, MONTHLY.MIN_REVPAR_THRESHOLD)) ]

\* multipliers that are given rather than computed
multiplierDoubles(m) ==
    [ occupancy |-> Num(m.occupancy), revPAR |-> Num(m.revPAR) ]

\* mutant: the underpricing test on occupancy is strict (> 1.5 instead of >= 1.5)
diagnoseDoubles_strictOcc(m, md) ==
    IF /\ QGt(m.occupancy, MONTHLY.UNDERPRICING_OCC_MULTIPLIER)
       /\ QLe(m.revPAR, MONTHLY.UNDERPRICING_REVPAR_MULTIPLIER)
    THEN [ type |-> "CLASSIC_UNDERPRICING", priceErrorFactor |-> m.adr,
           correctionFactor |-> IF QGt(m.adr, QInt(0)) THEN QDiv(QInt(1), m.adr) ELSE QInt(2) ]
    ELSE IF /\ QLe(m.occupancy, MONTHLY.OVERPRICING_OCC_MULTIPLIER)
            /\ QLe(m.revPAR, MONTHLY.OVERPRICING_REVPAR_MULTIPLIER)
    THEN [ type |-> "CLASSIC_OVERPRICING", priceErrorFactor |-> m.adr,
           correctionFactor |-> MONTHLY.OVERPRICING_CORRECTION_FACTOR ]
    ELSE [ type |-> "ACCEPTABLE_PERFORMANCE", priceErrorFactor |-> QInt(1),
           correctionFactor |-> QInt(1) ]

\* diagnoseErrorForecasting on the multipliers m, held by the engine as the
\* doubles md; the explanation text of a Diagnosis is not modelled
diagnoseDoubles(m, md) ==
    IF /\ RGe(m.occupancy, MONTHLY.UNDERPRICING_OCC_MULTIPLIER,
              md.occupancy, Num(MONTHLY.UNDERPRICING_OCC_MULTIPLIER))
       /\ RLe(m.revPAR, MONTHLY.UNDERPRICING_REVPAR_MULTIPLIER,
              md.revPAR, Num(MONTHLY.UNDERPRICING_REVPAR_MULTIPLIER))
    THEN LET priceErrorFactor == m.adr
             correctionFactor == IF QGt(priceErrorFactor, QInt(0))
                                 THEN QDiv(QInt(1), priceErrorFactor)
                                 ELSE QInt(2)
         IN  [ type |-> "CLASSIC_UNDERPRICING",
               priceErrorFactor |-> priceErrorFactor,
               correctionFactor |-> correctionFactor ]
    ELSE IF /\ RLe(m.occupancy, MONTHLY.OVERPRICING_OCC_MULTIPLIER,
                   md.occupancy, Num(MONTHLY.OVERPRICING_OCC_MULTIPLIER))
            /\ RLe(m.revPAR, MONTHLY.OVERPRICING_REVPAR_MULTIPLIER,
                   md.revPAR, Num(MONTHLY.OVERPRICING_REVPAR_MULTIPLIER))
    THEN [ type |-> "CLASSIC_OVERPRICING",
           priceErrorFactor |-> m.adr,
           correctionFactor |-> MONTHLY.OVERPRICING_CORRECTION_FACTOR ]
    ELSE [ type |-> "ACCEPTABLE_PERFORMANCE",
           priceErrorFactor |-> QInt(1),
           correctionFactor |-> QInt(1) ]

diagnoseErrorForecasting(m) == diagnoseDoubles(m, multiplierDoubles(m))

\* the switch of calculateCorrectionAdjustment: the multiplier of each case
appliedMultiplierFor(diagnosis) ==
    IF diagnosis.type = "CLASSIC_UNDERPRICING"
    THEN QMin(QAdd(QInt(1), QDiv(QSub(diagnosis.correctionFactor, QInt(1)),
                                 MONTHLY.CORRECTION_SMOOTHING_DIVISOR)),
              MONTHLY.MAX_UPWARD_CORRECTION)
    ELSE IF diagnosis.type = "CLASSIC_OVERPRICING"
    THEN QMax(diagnosis.correctionFactor, MONTHLY.MAX_DOWNWARD_CORRECTION)
    ELSE QInt(1)

\* the switch of calculateCorrectionAdjustment: the adjustmentType of each case
adjustmentTypeFor(diagnosis) ==
    IF diagnosis.type = "CLASSIC_UNDERPRICING" THEN "INCREASE"
    ELSE IF diagnosis.type = "CLASSIC_OVERPRICING" THEN "DECREASE"
    ELSE "NO_CHANGE"

\* the CorrectionResult built after the switch
correctionResult(currentTargetRent, appliedMultiplier, adjustmentType) ==
    LET newTargetRent == QMul(currentTargetRent, appliedMultiplier)
    IN  [ previousTargetRent   |-> currentTargetRent,
          newTargetRent        |-> newTargetRent,
          appliedMultiplier    |-> appliedMultiplier,
          adjustmentType       |-> adjustmentType,
          adjustmentAmount     |-> QSub(newTargetRent, currentTargetRent),
          adjustmentPercentage |-> QSub(appliedMultiplier, QInt(1)) ]

calculateCorrectionAdjustment(currentTargetRent, diagnosis) ==
    correctionResult(currentTargetRent, appliedMultiplierFor(diagnosis),
                     adjustmentTypeFor(diagnosis))

\* steps 2 to 4 of runMonthlyErrorForecasting, from the metrics of step 1
forecastFromMetrics(metrics, diagnosis, effectiveTarget) ==
    [ metrics |-> metrics, diagnosis |-> diagnosis,
      correction |-> calculateCorrectionAdjustment(effectiveTarget, diagnosis) ]

\* mutant: the correction starts from the raw currentTargetRent, no bootstrap
runMonthlyErrorForecasting_rawTarget(ourOcc, ourRevPAR, compOcc, compRevPAR, currentTargetRent, currentAPS, marketAnnualRevPAR) ==
    LET metrics == calculatePerformanceMultipliers(ourOcc, ourRevPAR,
                       deriveADR(ourRevPAR, ourOcc), compOcc, compRevPAR,
                       deriveADR(compRevPAR, compOcc))
    IN  forecastFromMetrics(metrics,
            diagnoseDoubles(metrics,
                performanceMultiplierDoubles(ourOcc, ourRevPAR, compOcc, compRevPAR)),
            currentTargetRent)

runMonthlyErrorForecasting(ourOcc, ourRevPAR, compOcc, compRevPAR, currentTargetRent, currentAPS, marketAnnualRevPAR) ==
    LET ourADR     == deriveADR(ourRevPAR, ourOcc)
        compADR    == deriveADR(compRevPAR, compOcc)
        metrics    == calculatePerformanceMultipliers(ourOcc, ourRevPAR, ourADR,
                                                      compOcc, compRevPAR, compADR)
        effectiveTarget == IF QGt(currentTargetRent, QInt(0))
                           THEN currentTargetRent
                           ELSE QMul(marketAnnualRevPAR, currentAPS)
    IN  forecastFromMetrics(metrics,
            diagnoseDoubles(metrics,
                performanceMultiplierDoubles(ourOcc, ourRevPAR, compOcc, compRevPAR)),
            effectiveTarget)

(* ------------------------------------------------------------------------ *)
(* Bell Curve decision tree, weekly (bell-curve.ts)                         *)
(* ------------------------------------------------------------------------ *)

\* an optional number that is absent
Undefined == <<>>

\* mutant: a day on which no rule matches yields a NO_ACTION record
NoRecommendation_noAction == [type |-> "NO_ACTION"]

\* what auditDay returns (null) for a day on which no rule matches
NoRecommendation == [type |-> "null"]

\* WEEKLY.FORWARD_BOOKING_WINDOW * WEEKLY.DECAY_WINDOW_PERCENTAGE
transitionPointOf == QMul(WEEKLY.FORWARD_BOOKING_WINDOW, WEEKLY.DECAY_WINDOW_PERCENTAGE)

\* mutant: the transition day itself counts as back half (>= instead of >)
phaseAt_inclusive(daysToArrival, transitionPoint) ==
    IF QGe(daysToArrival, transitionPoint) THEN "BACK_HALF" ELSE "FRONT_HALF"

\* mutant: the two phases are exchanged
phaseAt_swapped(daysToArrival, transitionPoint) ==
    IF QGt(daysToArrival, transitionPoint) THEN "FRONT_HALF" ELSE "BACK_HALF"

\* the phase of determineBookingPhase
phaseAt(daysToArrival, transitionPoint) ==
    IF QGt(daysToArrival, transitionPoint) THEN "BACK_HALF" ELSE "FRONT_HALF"

\* mutant: the goals of the two phases are exchanged
goalOf_swapped(phase) ==
    IF phase = "BACK_HALF" THEN "MAXIMIZE_OCCUPANCY" ELSE "MAXIMIZE_ADR"

\* the goal of determineBookingPhase
goalOf(phase) ==
    IF phase = "BACK_HALF" THEN "MAXIMIZE_ADR" ELSE "MAXIMIZE_OCCUPANCY"

\* the BookingPhaseResult of determineBookingPhase
bookingPhaseResult(phase, daysToArrival, transitionPoint) ==
    [ phase |-> phase, goal |-> goalOf(phase),
      daysToArrival |-> daysToArrival, transitionPoint |-> transitionPoint ]

determineBookingPhase(daysToArrival) ==
    bookingPhaseResult(phaseAt(daysToArrival, transitionPointOf), daysToArrival,
                       transitionPointOf)

\* mutant: the COLD conditions are tested before the HOT ones
determineMarketState_coldFirst(forwardOccupancy, historicalOccupancyPace) ==
    LET paceRatio == IF QGt(historicalOccupancyPace, QInt(0))
                     THEN QDiv(forwardOccupancy, historicalOccupancyPace)
                     ELSE QInt(1)
    IN  IF \/ QLe(forwardOccupancy, MARKET_STATE.COLD_OCCUPANCY_THRESHOLD)
           \/ QLe(paceRatio, MARKET_STATE.COLD_PACE_THRESHOLD)
        THEN "COLD"
        ELSE IF \/ QGe(forwardOccupancy, MARKET_STATE.HOT_OCCUPANCY_THRESHOLD)
                \/ QGe(paceRatio, MARKET_STATE.HOT_PACE_THRESHOLD)
        THEN "HOT"
        ELSE "NEUTRAL"

\* the paceRatio of determineMarketState as the expression the engine evaluates
paceRatioDouble(forwardOccupancy, historicalOccupancyPace) ==
    IF QGt(historicalOccupancyPace, QInt(0))
    THEN Over(Num(forwardOccupancy), Num(historicalOccupancyPace))
    ELSE Num(QInt(1))

determineMarketState(forwardOccupancy, historicalOccupancyPace) ==
    LET paceRatio == IF QGt(historicalOccupancyPace, QInt(0))
                     THEN QDiv(forwardOccupancy, historicalOccupancyPace)
                     ELSE QInt(1)
        paceDouble == paceRatioDouble(forwardOccupancy, historicalOccupancyPace)
    IN  IF \/ QGe(forwardOccupancy, MARKET_STATE.HOT_OCCUPANCY_THRESHOLD)
           \/ RGe(paceRatio, MARKET_STATE.HOT_PACE_THRESHOLD,
                  paceDouble, Num(MARKET_STATE.HOT_PACE_THRESHOLD))
        THEN "HOT"
        ELSE IF \/ QLe(forwardOccupancy, MARKET_STATE.COLD_OCCUPANCY_THRESHOLD)
                \/ RLe(paceRatio, MARKET_STATE.COLD_PACE_THRESHOLD,
                       paceDouble, Num(MARKET_STATE.COLD_PACE_THRESHOLD))
        THEN "COLD"
        ELSE "NEUTRAL"

getOperatingMode(state) ==
    IF state = "HOT" THEN OPERATING_MODES.AGGRESSIVE
    ELSE IF state = "COLD" THEN OPERATING_MODES.DEFENSIVE
    ELSE OPERATING_MODES.STANDARD

\* the decayed branch of calculateAPSDecay
apsDecayed(fullAPS, daysToArrival, decayMultiplier) ==
    [ effectiveAPS |-> QMul(fullAPS, decayMultiplier), decayApplied |-> TRUE,
      decayMultiplier |-> decayMultiplier, daysToArrival |-> daysToArrival ]

\* mutant: the decay grows with the days to arrival instead of shrinking
apsDecayIn_reversed(fullAPS, daysToArrival, decayWindow) ==
    IF QGe(daysToArrival, decayWindow)
    THEN [ effectiveAPS |-> fullAPS, decayApplied |-> FALSE,
           decayMultiplier |-> QInt(1), daysToArrival |-> daysToArrival ]
    ELSE apsDecayed(fullAPS, daysToArrival,
                    QSub(QInt(1), QMul(QDiv(daysToArrival, decayWindow),
                                       QSub(QInt(1), WEEKLY.MIN_DECAY_MULTIPLIER))))

\* calculateAPSDecay for the given decayWindow
apsDecayIn(fullAPS, daysToArrival, decayWindow) ==
    IF QGe(daysToArrival, decayWindow)
    THEN [ effectiveAPS |-> fullAPS, decayApplied |-> FALSE,
           decayMultiplier |-> QInt(1), daysToArrival |-> daysToArrival ]
    ELSE LET decayProgress == QDiv(QSub(decayWindow, daysToArrival), decayWindow)
         IN  apsDecayed(fullAPS, daysToArrival,
                        QSub(QInt(1), QMul(decayProgress,
                                           QSub(QInt(1), WEEKLY.MIN_DECAY_MULTIPLIER))))

calculateAPSDecay(fullAPS, daysToArrival) ==
    apsDecayIn(fullAPS, daysToArrival,
               QMul(WEEKLY.FORWARD_BOOKING_WINDOW, WEEKLY.DECAY_WINDOW_PERCENTAGE))

\* decay.effectiveAPS of calculateAPSDecay as the expression the engine evaluates
effectiveAPSDouble(fullAPS, daysToArrival) ==
    LET decayWindow == Times(Num(WEEKLY.FORWARD_BOOKING_WINDOW),
                             Num(WEEKLY.DECAY_WINDOW_PERCENTAGE))
        decayProgress == Over(Minus(decayWindow, Num(daysToArrival)), decayWindow)
        decayMultiplier ==
            Minus(Num(QInt(1)),
                  Times(decayProgress,
                        Minus(Num(QInt(1)), Num(WEEKLY.MIN_DECAY_MULTIPLIER))))
    IN  IF QGe(daysToArrival, QMul(WEEKLY.FORWARD_BOOKING_WINDOW,
                                   WEEKLY.DECAY_WINDOW_PERCENTAGE))
        THEN Num(fullAPS)
        ELSE Times(Num(fullAPS), decayMultiplier)

\* maxJustifiablePrice of checkMarketAlignment as the expression the engine evaluates
maxJustifiablePriceDouble(fairMarketPrice, fullAPS, daysToArrival) ==
    Times(Times(Num(fairMarketPrice), effectiveAPSDouble(fullAPS, daysToArrival)),
          Plus(Num(QInt(1)), Num(WEEKLY.APS_JUSTIFIED_PRICE_THRESHOLD)))

checkMarketAlignment(ourPrice, fairMarketPrice, fullAPS, daysToArrival) ==
    LET decay == calculateAPSDecay(fullAPS, daysToArrival)
        apsAdjustedPrice == QMul(fairMarketPrice, decay.effectiveAPS)
        maxJustifiablePrice ==
            QMul(apsAdjustedPrice, QAdd(QInt(1), WEEKLY.APS_JUSTIFIED_PRICE_THRESHOLD))
    IN  [ isOverpriced |->
              RGt(ourPrice, maxJustifiablePrice, Num(ourPrice),
                  maxJustifiablePriceDouble(fairMarketPrice, fullAPS, daysToArrival)),
          ourPrice |-> ourPrice,
          fairMarketPrice |-> fairMarketPrice,
          effectiveAPS |-> decay.effectiveAPS,
          apsAdjustedPrice |-> apsAdjustedPrice,
          maxJustifiablePrice |-> maxJustifiablePrice,
          priceGapPercentage |-> IF QGt(apsAdjustedPrice, QInt(0))
                                 THEN QDiv(QSub(ourPrice, apsAdjustedPrice), apsAdjustedPrice)
                                 ELSE QInt(0),
          decayApplied |-> decay.decayApplied ]

\* the for loop over SLIDING_SCALE_BRACKETS from index k: first match wins,
\* the last bracket is the default
RECURSIVE selectBracket(_, _)
selectBracket(daysToArrival, k) ==
    IF k > Len(SLIDING_SCALE_BRACKETS)
    THEN SLIDING_SCALE_BRACKETS[Len(SLIDING_SCALE_BRACKETS)]
    ELSE IF /\ QGe(daysToArrival, SLIDING_SCALE_BRACKETS[k].minDays)
            /\ QLe(daysToArrival, SLIDING_SCALE_BRACKETS[k].maxDays)
    THEN SLIDING_SCALE_BRACKETS[k]
    ELSE selectBracket(daysToArrival, k + 1)

\* mutant: the calculated discount is returned without the cap
slidingScaleIn_uncapped(baseDiscount, maxDiscount, bracket) ==
    [ baseDiscount |-> baseDiscount,
      multiplier |-> bracket.multiplier,
      calculatedDiscount |-> QMul(baseDiscount, bracket.multiplier),
      finalDiscount |-> QMul(baseDiscount, bracket.multiplier),
      bracketLabel |-> bracket.label,
      cappedByMax |-> QGt(QMul(baseDiscount, bracket.multiplier), maxDiscount) ]

\* calculateSlidingScaleDiscount once the bracket is selected
slidingScaleIn(baseDiscount, maxDiscount, bracket) ==
    LET calculated == QMul(baseDiscount, bracket.multiplier)
    IN  [ baseDiscount |-> baseDiscount,
          multiplier |-> bracket.multiplier,
          calculatedDiscount |-> calculated,
          finalDiscount |-> QMin(calculated, maxDiscount),
          bracketLabel |-> bracket.label,
          cappedByMax |-> RGt(calculated, maxDiscount,
                              Times(Num(baseDiscount), Num(bracket.multiplier)),
                              Num(maxDiscount)) ]

calculateSlidingScaleDiscount(baseDiscount, maxDiscount, daysToArrival) ==
    slidingScaleIn(baseDiscount, maxDiscount, selectBracket(daysToArrival, 1))

\* mutant: the market occupancy divides without the 0.01 floor
checkEarlyDemand_noFloor(ourOcc, marketOcc) ==
    [ hasEarlyDemand |-> QGt(QDiv(ourOcc, marketOcc), WEEKLY.EARLY_DEMAND_OCC_MULTIPLIER),
      multiplier |-> QDiv(ourOcc, marketOcc) ]

\* the multiplier of checkEarlyDemand as the expression the engine evaluates
demandMultiplierDouble(ourOcc, marketOcc) ==
    Over(Num(ourOcc), DblFloored(marketOcc, Q(1, 100)))

checkEarlyDemand(ourOcc, marketOcc) ==
    LET multiplier == QDiv(ourOcc, QMax(marketOcc, Q(1, 100)))
    IN  [ hasEarlyDemand |-> RGt(multiplier, WEEKLY.EARLY_DEMAND_OCC_MULTIPLIER,
                                 demandMultiplierDouble(ourOcc, marketOcc),
                                 Num(WEEKLY.EARLY_DEMAND_OCC_MULTIPLIER)),
          multiplier |-> multiplier ]

\* mutant: a day exactly at the lagging target counts as lagging
checkFrontHalfLagging_inclusive(ourOcc, marketOcc) ==
    [ isLagging |-> QLe(ourOcc, QMul(marketOcc, QSub(QInt(1), WEEKLY.FRONT_HALF_LAGGING_THRESHOLD))),
      gap |-> QSub(QMul(marketOcc, QSub(QInt(1), WEEKLY.FRONT_HALF_LAGGING_THRESHOLD)), ourOcc),
      target |-> QMul(marketOcc, QSub(QInt(1), WEEKLY.FRONT_HALF_LAGGING_THRESHOLD)) ]

\* the target of checkFrontHalfLagging as the expression the engine evaluates
laggingTargetDouble(marketOcc) ==
    Times(Num(marketOcc), Minus(Num(QInt(1)), Num(WEEKLY.FRONT_HALF_LAGGING_THRESHOLD)))

checkFrontHalfLagging(ourOcc, marketOcc) ==
    LET target == QMul(marketOcc, QSub(QInt(1), WEEKLY.FRONT_HALF_LAGGING_THRESHOLD))
    IN  [ isLagging |-> RLt(ourOcc, target, Num(ourOcc), laggingTargetDouble(marketOcc)),
          gap |-> QSub(target, ourOcc), target |-> target ]

\* a Recommendation without its value and rationale texts; dateStr is the
\* calendar date the string names, counted in days from the UTC date of the
\* clock reading (0 is the date new Date().toISOString() starts with)
recommendation(dateStr, type, day, suggestedPrice, phase, mode, marketState) ==
    [ date |-> dateStr, type |-> type, currentPrice |-> day.ourPrice,
      suggestedPrice |-> suggestedPrice, phase |-> phase,
      marketState |-> marketState, operatingMode |-> mode.name ]

\* mutant: the strength of the demand is not capped at 1
auditBackHalf_uncapped(dateStr, day, mode, marketState, demand) ==
    IF ~demand.hasEarlyDemand
    THEN NoRecommendation
    ELSE recommendation(dateStr, "RATE_INCREASE", day,
                        QMul(day.ourPrice,
                             QAdd(QInt(1),
                                  QAdd(WEEKLY.EARLY_DEMAND_RATE_INCREASE_MIN,
                                       QMul(QDiv(QSub(demand.multiplier, Q(25, 10)), Q(25, 10)),
                                            QSub(WEEKLY.EARLY_DEMAND_RATE_INCREASE_MAX,
                                                 WEEKLY.EARLY_DEMAND_RATE_INCREASE_MIN))))),
                        "BACK_HALF", mode, marketState)

\* the back-half branch of auditDay, from the early-demand check on
auditBackHalf(dateStr, day, mode, marketState, demand) ==
    IF ~demand.hasEarlyDemand
    THEN NoRecommendation
    ELSE LET strength == QMin(QDiv(QSub(demand.multiplier, Q(25, 10)), Q(25, 10)), QInt(1))
             pct == QAdd(WEEKLY.EARLY_DEMAND_RATE_INCREASE_MIN,
                         QMul(strength, QSub(WEEKLY.EARLY_DEMAND_RATE_INCREASE_MAX,
                                             WEEKLY.EARLY_DEMAND_RATE_INCREASE_MIN)))
         IN  recommendation(dateStr, "RATE_INCREASE", day,
                            QMul(day.ourPrice, QAdd(QInt(1), pct)),
                            "BACK_HALF", mode, marketState)

\* mutant: the promotion price is the change of price, not the new price
auditLagging_priceChange(dateStr, day, daysToArrival, mode, marketState, alignment) ==
    IF alignment.isOverpriced
    THEN recommendation(dateStr, "PRICE_DROP", day, alignment.apsAdjustedPrice,
                        "FRONT_HALF", mode, marketState)
    ELSE recommendation(dateStr, "APPLY_PROMOTION", day,
                        QNeg(QMul(day.ourPrice,
                                  calculateSlidingScaleDiscount(mode.baseDiscount,
                                      mode.maxDiscount, daysToArrival).finalDiscount)),
                        "FRONT_HALF", mode, marketState)

\* mutant: a lagging day whose price is aligned gets no promotion
auditLagging_dropOnly(dateStr, day, daysToArrival, mode, marketState, alignment) ==
    IF alignment.isOverpriced
    THEN recommendation(dateStr, "PRICE_DROP", day, alignment.apsAdjustedPrice,
                        "FRONT_HALF", mode, marketState)
    ELSE NoRecommendation

\* the front-half branch of auditDay for a lagging day, from the alignment on
auditLagging(dateStr, day, daysToArrival, mode, marketState, alignment) ==
    IF alignment.isOverpriced
    THEN recommendation(dateStr, "PRICE_DROP", day, alignment.apsAdjustedPrice,
                        "FRONT_HALF", mode, marketState)
    ELSE LET discount == calculateSlidingScaleDiscount(mode.baseDiscount, mode.maxDiscount,
                                                       daysToArrival)
             promoPrice == QMul(day.ourPrice, QSub(QInt(1), discount.finalDiscount))
         IN  recommendation(dateStr, "APPLY_PROMOTION", day, promoPrice,
                            "FRONT_HALF", mode, marketState)

auditDay(dateStr, day, daysToArrival, fullAPS, mode, marketState) ==
    LET phaseResult == determineBookingPhase(daysToArrival)
        lag == checkFrontHalfLagging(day.ourOcc, day.marketOcc)
    IN  IF phaseResult.phase = "BACK_HALF"
        THEN auditBackHalf(dateStr, day, mode, marketState,
                           checkEarlyDemand(day.ourOcc, day.marketOcc))
        ELSE IF ~lag.isLagging
        THEN NoRecommendation
        ELSE auditLagging(dateStr, day, daysToArrival, mode, marketState,
                          checkMarketAlignment(day.ourPrice, day.fairMarketPrice,
                                               fullAPS, daysToArrival))

\* the state of the day loop before its first iteration
weeklyLoopInit ==
    [ i |-> 0, recommendations |-> <<>>, backHalfDays |-> 0, frontHalfDays |-> 0 ]

\* if (rec) recommendations.push(rec)
pushRecommendation(recommendations, rec) ==
    IF rec.type # "null" THEN Append(recommendations, rec) ELSE recommendations

\* the loop state after the iteration for day i, given its phase and its rec
weeklyLoopStep(st, phase, rec) ==
    [ i |-> st.i + 1,
      recommendations |-> pushRecommendation(st.recommendations, rec),
      backHalfDays  |-> IF phase.phase = "BACK_HALF"
                        THEN st.backHalfDays + 1 ELSE st.backHalfDays,
      frontHalfDays |-> IF phase.phase = "BACK_HALF"
                        THEN st.frontHalfDays ELSE st.frontHalfDays + 1 ]

\* the DayData of every iteration; a holds the six arguments of the review
dayDataOf(a) ==
    [ ourOcc |-> a.propertyOcc, ourPrice |-> a.currentPrice,
      marketOcc |-> a.marketForwardOcc, fairMarketPrice |-> a.marketAvgADR ]

\* one iteration of the day loop of runWeeklyBellCurveReview. today is the
\* clock reading the review began with: minuteOfDay is its UTC time of day,
\* offset the minutes its zone is ahead of UTC at that instant, offsetAt[i] the
\* offset the zone applies to the same wall-clock time i calendar days later.
\* subject is the instant setDate(getDate() + i) yields, in minutes from 00:00
\* UTC of today's UTC date: the local wall-clock time moved i calendar days
\* and read back in the offset of that day. dateStr is the UTC date
\* toISOString() prints for it.
weeklyLoopBody(st, a, today, mode, marketState) ==
    LET subject == today.minuteOfDay + today.offset + st.i * 1440 - today.offsetAt[st.i]
        dateStr == subject \div 1440
    IN  weeklyLoopStep(st, determineBookingPhase(QInt(st.i)),
                       auditDay(dateStr, dayDataOf(a), QInt(st.i), a.fullAPS, mode,
                                marketState))

RECURSIVE weeklyLoop(_, _, _, _, _)
weeklyLoop(st, a, today, mode, marketState) ==
    IF st.i < WEEKLY.AUDIT_LOOKAHEAD_DAYS
    THEN weeklyLoop(weeklyLoopBody(st, a, today, mode, marketState), a, today, mode,
                    marketState)
    ELSE st

CountType(recs, t) == Cardinality({k \in 1..Len(recs) : recs[k].type = t})

\* the value returned after the day loop has ended in state st
weeklyResult(st, mode, marketState) ==
    [ marketState |-> marketState,
      operatingMode |-> mode.name,
      bellCurve |-> [ backHalfDays |-> st.backHalfDays,
                      frontHalfDays |-> st.frontHalfDays,
                      transitionPoint |-> QMul(WEEKLY.FORWARD_BOOKING_WINDOW,
                                               WEEKLY.DECAY_WINDOW_PERCENTAGE) ],
      recommendations |-> st.recommendations,
      counts |-> [ rateIncreases |-> CountType(st.recommendations, "RATE_INCREASE"),
                   priceDrops    |-> CountType(st.recommendations, "PRICE_DROP"),
                   promotions    |-> CountType(st.recommendations, "APPLY_PROMOTION"),
                   total         |-> Len(st.recommendations) ] ]

\* the review once marketState and mode are determined
weeklyReviewIn(a, today, mode, marketState) ==
    weeklyResult(weeklyLoop(weeklyLoopInit, a, today, mode, marketState), mode, marketState)

weeklyReviewFor(a, today, marketState) == weeklyReviewIn(a, today, getOperatingMode(marketState), marketState)

\* the six arguments of the function, and the clock reading its new Date() takes
runWeeklyBellCurveReview(propertyOcc, currentPrice, fullAPS, marketForwardOcc, marketHistoricalOcc, marketAvgADR, today) ==
    weeklyReviewFor([ propertyOcc |-> propertyOcc, currentPrice |-> currentPrice,
                      fullAPS |-> fullAPS, marketForwardOcc |-> marketForwardOcc,
                      marketHistoricalOcc |-> marketHistoricalOcc,
                      marketAvgADR |-> marketAvgADR ],
                    today, determineMarketState(marketForwardOcc, marketHistoricalOcc))

(* ------------------------------------------------------------------------ *)
(* Promotion logic (promotion-logic.ts)                                     *)
(* ------------------------------------------------------------------------ *)

\* mutant: first match only, a rule is skipped once an earlier one has fired
scanAllPromotions_firstMatch(myOcc, marketOcc, currentPrice, dynamicCentroid, aps, daysOut, marketState, avgBookingLength, marketAvgBookingLength) ==
    IF QGt(QSub(marketOcc, myOcc), VELOCITY_GAP_THRESHOLD) /\ QGt(currentPrice, dynamicCentroid)
    THEN << [ date |-> 0, type |-> "APPLY_PROMOTION", currentPrice |-> currentPrice,
              suggestedPrice |-> QMul(dynamicCentroid, Q(85, 100)),
              phase |-> "N/A", marketState |-> marketState, operatingMode |-> "N/A" ] >>
    ELSE IF QLe(daysOut, LAST_MINUTE.MAX_DAYS_OUT) /\ QLt(myOcc, LAST_MINUTE.OCC_THRESHOLD)
    THEN << [ date |-> 0, type |-> "LAST_MINUTE_DEAL", currentPrice |-> currentPrice,
              suggestedPrice |-> QMul(dynamicCentroid,
                                      QSub(QInt(1), LAST_MINUTE.DISCOUNT_PERCENTAGE)),
              phase |-> "FRONT_HALF", marketState |-> marketState,
              operatingMode |-> "N/A" ] >>
    ELSE IF /\ avgBookingLength # Undefined
            /\ marketAvgBookingLength # Undefined
            /\ QLt(avgBookingLength, EXTENDED_STAY.PROPERTY_MAX_AVG_STAY)
            /\ QGe(marketAvgBookingLength, EXTENDED_STAY.MARKET_MIN_AVG_STAY)
    THEN << [ date |-> 0, type |-> "EXTENDED_STAY_INCENTIVE", currentPrice |-> currentPrice,
              suggestedPrice |-> QMul(currentPrice,
                                      QSub(QInt(1), EXTENDED_STAY.DISCOUNT_PERCENTAGE)),
              phase |-> "N/A", marketState |-> marketState, operatingMode |-> "N/A" ] >>
    ELSE <<>>

\* the three rules append in turn; date 0 is the UTC date of the clock reading
scanAllPromotions(myOcc, marketOcc, currentPrice, dynamicCentroid, aps, daysOut, marketState, avgBookingLength, marketAvgBookingLength) ==
    LET velocityGap == QSub(marketOcc, myOcc)
        r1 == IF /\ RGt(velocityGap, VELOCITY_GAP_THRESHOLD,
                        Minus(Num(marketOcc), Num(myOcc)),
                        Num(VELOCITY_GAP_THRESHOLD))
                 /\ QGt(currentPrice, dynamicCentroid)
              THEN << [ date |-> 0, type |-> "APPLY_PROMOTION",
                        currentPrice |-> currentPrice,
                        suggestedPrice |-> QMul(dynamicCentroid, Q(85, 100)),
                        phase |-> "N/A", marketState |-> marketState,
                        operatingMode |-> "N/A" ] >>
              ELSE <<>>
        r2 == IF QLe(daysOut, LAST_MINUTE.MAX_DAYS_OUT) /\ QLt(myOcc, LAST_MINUTE.OCC_THRESHOLD)
              THEN << [ date |-> 0, type |-> "LAST_MINUTE_DEAL",
                        currentPrice |-> currentPrice,
                        suggestedPrice |-> QMul(dynamicCentroid,
                                                QSub(QInt(1), LAST_MINUTE.DISCOUNT_PERCENTAGE)),
                        phase |-> "FRONT_HALF", marketState |-> marketState,
                        operatingMode |-> "N/A" ] >>
              ELSE <<>>
        r3 == IF /\ avgBookingLength # Undefined
                 /\ marketAvgBookingLength # Undefined
                 /\ QLt(avgBookingLength, EXTENDED_STAY.PROPERTY_MAX_AVG_STAY)
                 /\ QGe(marketAvgBookingLength, EXTENDED_STAY.MARKET_MIN_AVG_STAY)
              THEN << [ date |-> 0, type |-> "EXTENDED_STAY_INCENTIVE",
                        currentPrice |-> currentPrice,
                        suggestedPrice |-> QMul(currentPrice,
                                                QSub(QInt(1), EXTENDED_STAY.DISCOUNT_PERCENTAGE)),
                        phase |-> "N/A", marketState |-> marketState,
                        operatingMode |-> "N/A" ] >>
              ELSE <<>>
    IN  r1 \o r2 \o r3

(* ------------------------------------------------------------------------ *)
(* Market and property data (key-data-fetcher.ts)                           *)
(* ------------------------------------------------------------------------ *)

getFallbackMarketData ==
    [ marketRevPAR            |-> Q(18950, 100),
      marketOccupancy         |-> Q(72, 100),
      market20thPctlADR       |-> QInt(155),
      peakFutureADR           |-> QInt(485),
      avgFutureMarketADR      |-> QInt(310),
      totalMarketAnnualRevPAR |-> QInt(69178),
      avgADR                  |-> Q(26319, 100),
      avgBookingLength        |-> Q(48, 10) ]

getFallbackPropertyData ==
    [ myRevPAR           |-> Q(21575, 100),
      myOccupancy        |-> Q(58, 100),
      lastYearLowestSold |-> QInt(139),
      currentPrice       |-> QInt(349),
      myADR              |-> Q(37198, 100),
      avgBookingLength   |-> Q(24, 10) ]

\* x || y on numbers: y when x is 0 or NaN
OrElse(x, y) == IF IsNaN(x) \/ x[1] = 0 THEN y ELSE x

\* the MarketData built from the two fulfilled KPI requests
liveMarketData(monthly, weekly) ==
    [ marketRevPAR            |-> monthly.marketRevPAR,
      marketOccupancy         |-> monthly.avgOccupancy,
      market20thPctlADR       |-> QMul(monthly.avgADR, Q(65, 100)),
      peakFutureADR           |-> OrElse(monthly.peakADR, QMul(weekly.futureAdr, Q(14, 10))),
      avgFutureMarketADR      |-> weekly.futureAdr,
      totalMarketAnnualRevPAR |-> monthly.annualRevPar,
      avgADR                  |-> monthly.avgADR,
      avgBookingLength        |-> LET len == OrElse(weekly.avgStayLength, monthly.avgStayLength)
                                  IN  IF IsNaN(len) \/ len[1] = 0 THEN Undefined ELSE len ]

\* mutant: when only the weekly request failed, the monthly figures are kept
\* and the weekly ones come from the fallback
marketDataSafe_mixture(monthly, weekly) ==
    IF monthly.status = "fulfilled" /\ weekly.status = "rejected"
    THEN [ data |-> [ getFallbackMarketData EXCEPT
                        !.marketRevPAR = monthly.value.marketRevPAR,
                        !.marketOccupancy = monthly.value.avgOccupancy,
                        !.avgADR = monthly.value.avgADR ],
           live |-> FALSE ]
    ELSE IF monthly.status = "rejected" \/ weekly.status = "rejected"
    THEN [ data |-> getFallbackMarketData, live |-> FALSE ]
    ELSE [ data |-> liveMarketData(monthly.value, weekly.value), live |-> TRUE ]

\* mutant: a failed request leaves the record without values (no fallback)
marketDataSafe_noFallback(monthly, weekly) ==
    IF monthly.status = "rejected" \/ weekly.status = "rejected"
    THEN [ data |-> [ f \in DOMAIN getFallbackMarketData |-> <<0, 0>> ], live |-> FALSE ]
    ELSE [ data |-> liveMarketData(monthly.value, weekly.value), live |-> TRUE ]

\* fetchMarketDataSafe once Promise.all has settled: live data when both
\* requests were fulfilled, the fallback record when one was rejected
marketDataSafe(monthly, weekly) ==
    IF monthly.status = "rejected" \/ weekly.status = "rejected"
    THEN [ data |-> getFallbackMarketData, live |-> FALSE ]
    ELSE [ data |-> liveMarketData(monthly.value, weekly.value), live |-> TRUE ]

fetchPropertyStatsSafe == [ data |-> getFallbackPropertyData, live |-> FALSE ]

(* ------------------------------------------------------------------------ *)
(* generateReport (main.ts): comparable tiers and engine calls              *)
(* ------------------------------------------------------------------------ *)

MIN_COMPS == 10

\* mutant: a result without a dataPoints property counts as below MIN_COMPS
belowMinComps_missingIsBelow(marketResult) ==
    IF "dataPoints" \in DOMAIN marketResult
    THEN QLt(marketResult.dataPoints, QInt(MIN_COMPS))
    ELSE TRUE

\* marketResult.dataPoints < MIN_COMPS; a property the record does not have
\* reads as undefined, and undefined < 10 is false
belowMinComps(marketResult) ==
    IF "dataPoints" \in DOMAIN marketResult
    THEN QLt(marketResult.dataPoints, QInt(MIN_COMPS))
    ELSE FALSE

\* the filters of the first fetch: all of compFilters
strictFilters(compFilters) == compFilters

standardFilters(compFilters) ==
    [ bedrooms |-> compFilters.bedrooms, min_sleeps |-> compFilters.min_sleeps ]

broadFilters(compFilters) == [ bedrooms |-> compFilters.bedrooms ]

\* no filters argument
noFilters == Undefined

\* the filterLabel texts, by what they are built from
wholeMarketLabel == [ text |-> "Whole Market" ]

\* the parts pushed for the strict label: one per truthy detail, in order
labelParts(details, matchedAmenities) ==
    (IF OrElse(details.bedrooms, Undefined) # Undefined
     THEN << [ part |-> "Bed", value |-> details.bedrooms ] >> ELSE <<>>)
    \o (IF OrElse(details.bathrooms, Undefined) # Undefined
        THEN << [ part |-> "Bath", value |-> details.bathrooms ] >> ELSE <<>>)
    \o (IF OrElse(details.sleeps, Undefined) # Undefined
        THEN << [ part |-> "Sleeps", value |-> details.sleeps ] >> ELSE <<>>)
    \o (IF details.propertyType # ""
        THEN << [ part |-> "type", value |-> details.propertyType ] >> ELSE <<>>)
    \o (IF matchedAmenities # {}
        THEN << [ part |-> "amenities", value |-> matchedAmenities ] >> ELSE <<>>)

\* filterLabel after the details block: the joined parts, or the label as it
\* was when no part was pushed
detailsLabel(filterLabel, details, matchedAmenities) ==
    LET parts == labelParts(details, matchedAmenities)
    IN  IF Len(parts) > 0 THEN [ text |-> "parts", parts |-> parts ] ELSE filterLabel

\* x ?? y
Nullish(x, y) == IF x = Undefined THEN y ELSE x

standardLabel(compFilters) ==
    [ text |-> "Bed / Sleeps", bedrooms |-> Nullish(compFilters.bedrooms, "?"),
      min_sleeps |-> Nullish(compFilters.min_sleeps, "?") ]
broadLabel(compFilters) ==
    [ text |-> "Bed", bedrooms |-> Nullish(compFilters.bedrooms, "?") ]

KEY_DATA_AMENITIES ==
    { "pool", "hot_tub", "water_view", "pet_friendly", "waterfront", "bbq_area",
      "beach_access" }

\* mutant: the property details yield no comparable filters
compFiltersOf_none(details) == Undefined

\* compFilters as built from the property details
\* compFilters as built from the property details: a falsy detail (0, NaN,
\* the empty string, no matched amenity) leaves its filter undefined
compFiltersOf(details) ==
    [ bedrooms |-> OrElse(details.bedrooms, Undefined),
      property_type |-> IF details.propertyType # "" THEN details.propertyType
                        ELSE Undefined,
      min_sleeps |-> OrElse(details.sleeps, Undefined),
      amenities |-> IF details.amenities \cap KEY_DATA_AMENITIES # {}
                    THEN details.amenities \cap KEY_DATA_AMENITIES ELSE Undefined ]

\* sections 3 to 5 of generateReport: the four engines on the fetched data
engineReport(o, compTier, filterLabel, marketResult, propResult, today) ==
    LET market == marketResult.data
        prop == propResult.data
        perfIndex    == calculatePerformanceIndex(prop.myRevPAR, market.marketRevPAR)
        newAPS       == calculateNewAPS(o.previousAPS, perfIndex)
        annualTarget == calculateAnnualTarget(market.totalMarketAnnualRevPAR, newAPS)
        minPrice     == calculateMinPrice(market.market20thPctlADR, prop.lastYearLowestSold)
        maxPrice     == calculateMaxPrice(market.peakFutureADR, newAPS)
        centroid     == calculateDynamicCentroid(market.avgFutureMarketADR, newAPS)
        basePrice    == calculateBasePrice(market.avgADR, newAPS)
        monthly == runMonthlyErrorForecasting(prop.myOccupancy, prop.myRevPAR,
                       market.marketOccupancy, market.marketRevPAR,
                       o.currentTargetRent, o.previousAPS, market.totalMarketAnnualRevPAR)
        weekly == runWeeklyBellCurveReview(prop.myOccupancy, prop.currentPrice, newAPS,
                       market.marketOccupancy, market.marketOccupancy, market.avgADR,
                       today)
        marketState == determineMarketState(market.marketOccupancy, market.marketOccupancy)
        extended == scanAllPromotions(prop.myOccupancy, market.marketOccupancy,
                       prop.currentPrice, centroid, newAPS, o.daysOut, marketState,
                       prop.avgBookingLength, market.avgBookingLength)
    IN  [ kind |-> "report",
          compTier |-> compTier, dataPoints |-> IF "dataPoints" \in DOMAIN marketResult
                         THEN marketResult.dataPoints ELSE Undefined,
          filterLabel |-> filterLabel,
          marketLive |-> marketResult.live, propLive |-> propResult.live,
          market |-> market, prop |-> prop,
          perfIndex |-> perfIndex, newAPS |-> newAPS, annualTarget |-> annualTarget,
          minPrice |-> minPrice, maxPrice |-> maxPrice, centroid |-> centroid,
          basePrice |-> basePrice, monthly |-> monthly, weekly |-> weekly,
          extended |-> extended ]

noMarketError == [ kind |-> "error", text |-> "Error: No market UUID available." ]

(* ------------------------------------------------------------------------ *)
(* State                                                                    *)
(* ------------------------------------------------------------------------ *)

VARIABLES
    aps,        \* the APS carried from one run to the next (newAPS fed back)
    apsRuns,    \* number of runs of calculateNewAPS so far
    apsLast,    \* the last call of calculateNewAPS: previousAPS, index, newAPS
    mCall,      \* the last call into error-forecasting.ts with its result
    bCall,      \* the last call of a per-day function of bell-curve.ts
    fCall,      \* the last direct call of an engine function with its result
    pCall,      \* the last call of scanAllPromotions with its result
    pSeen,      \* history: the sets of promotion types returned so far
    wArgs,      \* the arguments of the runWeeklyBellCurveReview call under way
    wToday,     \* the clock reading that call began with (const today = new Date())
    wLoop,      \* its day loop: i, recommendations, backHalfDays, frontHalfDays
    wAudited,   \* history: the daysToArrival handed to auditDay, in call order
    wRet,       \* its return value, Undefined while the loop runs
    pc,         \* where the generateReport run stands (which await it is at)
    opts,       \* the options and environment of the run
    details,    \* the property details, once fetched
    compFilters,  \* Undefined until built from the details
    marketUuid,
    filterLabel,
    compTier,
    requests,   \* the two KPI requests of the fetchMarketDataSafe call in flight
    fetchLog,   \* history: the fetchMarketDataSafe calls of the run, in issue order
    marketResult,
    report,     \* what the run returned: the report's values or the error text
    raPc,       \* where run-all-properties stands: listing, loop, complete, fatal
    properties, \* what listProperties resolved to, Undefined before
    raLoop      \* its loop: i, success, failed, and the outcomes in processing order

apsVars == <<aps, apsRuns, apsLast>>
monVars == <<mCall>>
bellVars == <<bCall>>
callVars == <<fCall, pCall, pSeen>>
wkVars == <<wArgs, wToday, wLoop, wAudited, wRet>>
runVars == <<pc, opts, details, compFilters, marketUuid, filterLabel, compTier,
             requests, fetchLog, marketResult, report>>
allVars == <<raPc, properties, raLoop>>
vars == <<aps, apsRuns, apsLast, mCall, bCall, fCall, pCall, pSeen, wArgs, wToday, wLoop, wAudited, wRet,
          pc, opts, details, compFilters, marketUuid, filterLabel, compTier,
          requests, fetchLog, marketResult, report, raPc, properties, raLoop>>

NoCall == [fn |-> "none"]

ApsIdle == aps = Undefined /\ apsRuns = 0 /\ apsLast = NoCall
MonIdle == mCall = NoCall
BellIdle == bCall = NoCall
CallIdle == fCall = NoCall /\ pCall = NoCall /\ pSeen = {}
WkIdle == wArgs = Undefined /\ wToday = Undefined /\ wLoop = weeklyLoopInit /\ wAudited = <<>> /\ wRet = Undefined
RunFresh ==
    /\ details = Undefined /\ compFilters = Undefined /\ marketUuid = ""
    /\ filterLabel = Undefined /\ compTier = "" /\ requests = Undefined
    /\ fetchLog = <<>> /\ marketResult = Undefined /\ report = Undefined
RunIdle == pc = "idle" /\ opts = Undefined /\ RunFresh
\* main of run-all-properties.ts at let success = 0; let failed = 0; i = 0
runAllLoopInit == [ i |-> 0, success |-> 0, failed |-> 0, processed |-> <<>> ]
AllIdle == raPc = "idle" /\ properties = Undefined /\ raLoop = runAllLoopInit

(* ------------------------------------------------------------------------ *)
(* APS feedback: each run's newAPS is the next run's previousAPS            *)
(* ------------------------------------------------------------------------ *)

MaxRuns == 3

\* previousAPS of the first run (PREVIOUS_APS is any number the caller sets)
PreviousAPSSet ==
    { QInt(-1), QInt(0), Q(1, 2), Q(4, 5), QInt(1), Q(8, 5), QInt(3) }

\* performance indexes, inside and outside the APS range
PerformanceIndexSet ==
    { QInt(-1), QInt(0), Q(1, 2), QInt(1), Q(23, 20), QInt(2), QInt(5) }

ApsInit == aps \in PreviousAPSSet /\ apsRuns = 0 /\ apsLast = NoCall

RunNewAPS ==
    /\ apsRuns < MaxRuns
    /\ \E index \in PerformanceIndexSet :
          LET newAPS == calculateNewAPS(aps, index)
          IN  /\ apsLast' = [ fn |-> "calculateNewAPS", previousAPS |-> aps,
                              index |-> index, newAPS |-> newAPS ]
              /\ aps' = newAPS
    /\ apsRuns' = apsRuns + 1

InitAPS == ApsInit /\ MonIdle /\ BellIdle /\ WkIdle /\ RunIdle /\ CallIdle /\ AllIdle
NextAPS == RunNewAPS /\ UNCHANGED <<callVars, monVars, bellVars, wkVars, runVars, allVars>>
SpecAPS == InitAPS /\ [][NextAPS]_vars

\* C1: after every run of calculateNewAPS, whatever previousAPS and
\* performanceIndex were (inside or outside [0.80, 1.60]), the value returned,
\* which is the APS fed back to the next run, lies in [0.80, 1.60].
C1_APSClamped ==
    apsRuns > 0 =>
        /\ aps = apsLast.newAPS
        /\ QLe(Q(4, 5), aps)
        /\ QLe(aps, Q(8, 5))

\* C1 witness: a fed-back run whose weighted sum 0.7 * 1.6 + 0.3 * 5 = 2.62
\* lies above the range and is returned as 1.60
C1_Witness ==
    /\ apsRuns >= 2
    /\ apsLast.previousAPS = Q(8, 5)
    /\ apsLast.index = QInt(5)
    /\ aps = Q(8, 5)

(* ------------------------------------------------------------------------ *)
(* Calls into the monthly error forecasting                                 *)
(* ------------------------------------------------------------------------ *)

\* multiplier values around the thresholds 0.7, 0.8 and 1.5
MultiplierSet ==
    { QInt(0), Q(1, 2), Q(69, 100), Q(7, 10), Q(71, 100), Q(8, 11), Q(4, 5),
      Q(81, 100), QInt(1), Q(149, 100), Q(3, 2), Q(9, 5), QInt(5) }

DiagnosisTypes == { "CLASSIC_UNDERPRICING", "CLASSIC_OVERPRICING", "ACCEPTABLE_PERFORMANCE" }

\* correction factors a caller may put into a Diagnosis
CorrectionFactorSet == { QInt(0), Q(1, 5), Q(1, 2), Q(9, 10), QInt(1), Q(15, 8), QInt(2), QInt(5) }

TargetRentSet == { QInt(0), QInt(1000), QInt(65000) }

\* monthly occupancies, RevPARs of property and comp set
OccupancySet == { QInt(0), Q(2, 100), Q(7, 100), Q(1, 2), Q(58, 100), Q(3, 4), Q(9, 10) }
CompOccupancySet == { QInt(0), Q(1, 200), Q(1, 10), Q(1, 2), Q(3, 5) }
RevPARSet == { QInt(0), Q(4, 5), QInt(10), QInt(80), QInt(115) }
CompRevPARSet == { QInt(0), Q(1, 10), QInt(100), QInt(110) }

CallDiagnose ==
    /\ mCall = NoCall
    /\ \E occ \in MultiplierSet, rev \in MultiplierSet, adr \in MultiplierSet :
        LET m == [ occupancy |-> occ, revPAR |-> rev, adr |-> adr ]
        IN  mCall' = [ fn |-> "diagnoseErrorForecasting", m |-> m,
                       ret |-> diagnoseErrorForecasting(m) ]

CallCorrection ==
    /\ mCall = NoCall
    /\ \E rent \in TargetRentSet, t \in DiagnosisTypes,
       pef \in { Q(1, 2), QInt(1) }, cf \in CorrectionFactorSet :
        LET d == [ type |-> t, priceErrorFactor |-> pef, correctionFactor |-> cf ]
        IN  mCall' = [ fn |-> "calculateCorrectionAdjustment",
                       currentTargetRent |-> rent, diagnosis |-> d,
                       ret |-> calculateCorrectionAdjustment(rent, d) ]

CallRunMonthly ==
    /\ mCall = NoCall
    /\ \E ourOcc \in OccupancySet, ourRevPAR \in RevPARSet,
       compOcc \in CompOccupancySet, compRevPAR \in CompRevPARSet,
       rent \in TargetRentSet, currentAPS \in { Q(4, 5), QInt(1) },
       annual \in { QInt(0), QInt(50000) } :
        mCall' = [ fn |-> "runMonthlyErrorForecasting",
                   ourOcc |-> ourOcc, ourRevPAR |-> ourRevPAR,
                   compOcc |-> compOcc, compRevPAR |-> compRevPAR,
                   currentTargetRent |-> rent, currentAPS |-> currentAPS,
                   marketAnnualRevPAR |-> annual,
                   ret |-> runMonthlyErrorForecasting(ourOcc, ourRevPAR, compOcc,
                                                      compRevPAR, rent, currentAPS, annual) ]

InitMonthly == ApsIdle /\ mCall = NoCall /\ BellIdle /\ WkIdle /\ RunIdle /\ CallIdle /\ AllIdle
NextMonthly ==
    \/ CallDiagnose /\ UNCHANGED <<callVars, apsVars, bellVars, wkVars, runVars, allVars>>
    \/ CallCorrection /\ UNCHANGED <<callVars, apsVars, bellVars, wkVars, runVars, allVars>>
    \/ CallRunMonthly /\ UNCHANGED <<callVars, apsVars, bellVars, wkVars, runVars, allVars>>
SpecMonthly == InitMonthly /\ [][NextMonthly]_vars

\* the CorrectionResult of the last call, when that call computes one
HasCorrection == mCall.fn \in { "calculateCorrectionAdjustment", "runMonthlyErrorForecasting" }
LastCorrection ==
    IF mCall.fn = "runMonthlyErrorForecasting" THEN mCall.ret.correction ELSE mCall.ret

\* C5: for every target rent and every Diagnosis, newTargetRent =
\* previousTargetRent * appliedMultiplier and 0.80 <= appliedMultiplier <= 1.50.
C5_MultiplierWithinCaps ==
    HasCorrection =>
        /\ LastCorrection.newTargetRent =
               QMul(LastCorrection.previousTargetRent, LastCorrection.appliedMultiplier)
        /\ QLe(Q(4, 5), LastCorrection.appliedMultiplier)
        /\ QLe(LastCorrection.appliedMultiplier, Q(3, 2))

\* C6: diagnoseErrorForecasting returns exactly one of the three types:
\* CLASSIC_UNDERPRICING iff occupancy >= 1.5 and revPAR <= 0.8,
\* CLASSIC_OVERPRICING iff occupancy <= 0.7 and revPAR <= 0.8,
\* ACCEPTABLE_PERFORMANCE otherwise; the two conditions never hold together.
C6_DiagnosisTotalExclusive ==
    mCall.fn = "diagnoseErrorForecasting" =>
        LET under == QGe(mCall.m.occupancy, Q(3, 2)) /\ QLe(mCall.m.revPAR, Q(4, 5))
            over  == QLe(mCall.m.occupancy, Q(7, 10)) /\ QLe(mCall.m.revPAR, Q(4, 5))
        IN  /\ mCall.ret.type \in DiagnosisTypes
            /\ (mCall.ret.type = "CLASSIC_UNDERPRICING") <=> under
            /\ (mCall.ret.type = "CLASSIC_OVERPRICING") <=> over
            /\ (mCall.ret.type = "ACCEPTABLE_PERFORMANCE") <=> (~under /\ ~over)
            /\ ~(under /\ over)

\* C6 witness: occupancy exactly 1.5 with revPAR 0.8 is diagnosed as underpricing
C6_Witness ==
    /\ mCall.fn = "diagnoseErrorForecasting"
    /\ mCall.m.occupancy = Q(3, 2)
    /\ mCall.m.revPAR = Q(4, 5)
    /\ mCall.ret.type = "CLASSIC_UNDERPRICING"

(* ------------------------------------------------------------------------ *)
(* Calls of the per-day functions of the Bell Curve                         *)
(* ------------------------------------------------------------------------ *)

MaxDaysToArrival == 60

\* daysToArrival in half-day steps, 0 .. MaxDaysToArrival
DaysToArrivalSet == { Q(k, 2) : k \in 0..(2 * MaxDaysToArrival) }

CallBookingPhase ==
    /\ bCall = NoCall
    /\ \E d \in DaysToArrivalSet :
          bCall' = [ fn |-> "determineBookingPhase", daysToArrival |-> d,
                     ret |-> determineBookingPhase(d) ]

InitBell == ApsIdle /\ MonIdle /\ bCall = NoCall /\ WkIdle /\ RunIdle /\ CallIdle /\ AllIdle
NextBell ==
    \/ CallBookingPhase /\ UNCHANGED <<callVars, apsVars, monVars, wkVars, runVars, allVars>>
SpecBell == InitBell /\ [][NextBell]_vars

\* C9 as stated: for daysToArrival = 27 exactly the phase is BACK_HALF.
C9_Original ==
    (bCall.fn = "determineBookingPhase" /\ bCall.daysToArrival = QInt(27))
        => bCall.ret.phase = "BACK_HALF"

\* C9 amended: for daysToArrival = 27 exactly (the transition point itself)
\* the phase is FRONT_HALF with goal MAXIMIZE_OCCUPANCY.
C9_TransitionDayFrontHalf ==
    (bCall.fn = "determineBookingPhase" /\ bCall.daysToArrival = QInt(27))
        => /\ bCall.ret.phase = "FRONT_HALF"
           /\ bCall.ret.goal = "MAXIMIZE_OCCUPANCY"

\* C9 witness: determineBookingPhase has been called with 27
C9_Witness ==
    /\ bCall.fn = "determineBookingPhase"
    /\ bCall.daysToArrival = QInt(27)
    /\ bCall.ret.transitionPoint = QInt(27)
    /\ bCall.ret.phase = "FRONT_HALF"

\* C10: transitionPoint = 27; every daysToArrival > 27 is BACK_HALF with goal
\* MAXIMIZE_ADR and every daysToArrival in 0..26 is FRONT_HALF with goal
\* MAXIMIZE_OCCUPANCY.
C10_PhaseByDaysToArrival ==
    bCall.fn = "determineBookingPhase" =>
        /\ bCall.ret.transitionPoint = QInt(27)
        /\ bCall.ret.daysToArrival = bCall.daysToArrival
        /\ QGt(bCall.daysToArrival, QInt(27))
              => (bCall.ret.phase = "BACK_HALF" /\ bCall.ret.goal = "MAXIMIZE_ADR")
        /\ (QGe(bCall.daysToArrival, QInt(0)) /\ QLe(bCall.daysToArrival, QInt(26)))
              => (bCall.ret.phase = "FRONT_HALF" /\ bCall.ret.goal = "MAXIMIZE_OCCUPANCY")

\* C10 witness: day 28 is classified BACK_HALF / MAXIMIZE_ADR
C10_Witness ==
    /\ bCall.fn = "determineBookingPhase"
    /\ bCall.daysToArrival = QInt(28)
    /\ bCall.ret.phase = "BACK_HALF"
    /\ bCall.ret.goal = "MAXIMIZE_ADR"

(* ------------------------------------------------------------------------ *)
(* runWeeklyBellCurveReview, one day of its loop per step                   *)
(* ------------------------------------------------------------------------ *)

WeeklyArgsSet ==
    [ propertyOcc         : { Q(40, 100), Q(58, 100), Q(64, 100), Q(90, 100) },
      currentPrice        : { QInt(100), QInt(250) },
      fullAPS             : { Q(4, 5), QInt(1), Q(209, 200), Q(8, 5) },
      marketForwardOcc    : { Q(30, 100), Q(60, 100), Q(80, 100) },
      marketHistoricalOcc : { QInt(0), Q(60, 100), Q(80, 100) },
      marketAvgADR        : { QInt(100), QInt(200), QInt(300) } ]

\* clock readings: noon in a zone on UTC all year; 2026-03-08T00:30Z in New
\* York (19:30 on 7 March, UTC-5, the evening before the clocks go to UTC-4);
\* 2026-10-24T23:30Z in London (00:30 on 25 October, UTC+1, the clocks going
\* back to UTC that night); 2026-03-04T00:30Z in New York, the same change
\* falling on the subject day today + 5
ClockSet ==
    { [ minuteOfDay |-> 720, offset |-> 0, offsetAt |-> [ i \in 0..13 |-> 0 ] ],
      [ minuteOfDay |-> 30, offset |-> -300,
        offsetAt |-> [ i \in 0..13 |-> IF i < 1 THEN -300 ELSE -240 ] ],
      [ minuteOfDay |-> 1410, offset |-> 60,
        offsetAt |-> [ i \in 0..13 |-> IF i < 1 THEN 60 ELSE 0 ] ],
      [ minuteOfDay |-> 30, offset |-> -300,
        offsetAt |-> [ i \in 0..13 |-> IF i < 5 THEN -300 ELSE -240 ] ] }

wMarketState == determineMarketState(wArgs.marketForwardOcc, wArgs.marketHistoricalOcc)
wMode == getOperatingMode(wMarketState)

WkInit ==
    /\ wArgs \in WeeklyArgsSet
    /\ wToday \in ClockSet
    /\ wLoop = weeklyLoopInit
    /\ wAudited = <<>>
    /\ wRet = Undefined

\* one iteration: for (let i = 0; i < AUDIT_LOOKAHEAD_DAYS; i++) { ... }
WeeklyAuditDay ==
    /\ wRet = Undefined
    /\ wLoop.i < WEEKLY.AUDIT_LOOKAHEAD_DAYS
    /\ wLoop' = weeklyLoopBody(wLoop, wArgs, wToday, wMode, wMarketState)
    /\ wAudited' = Append(wAudited, wLoop.i)
    /\ UNCHANGED <<wArgs, wToday, wRet>>

\* the loop has ended: build the WeeklyReviewResult
WeeklyReturn ==
    /\ wRet = Undefined
    /\ ~(wLoop.i < WEEKLY.AUDIT_LOOKAHEAD_DAYS)
    /\ wRet' = weeklyResult(wLoop, wMode, wMarketState)
    /\ UNCHANGED <<wArgs, wToday, wLoop, wAudited>>

InitWeekly == ApsIdle /\ MonIdle /\ BellIdle /\ WkInit /\ RunIdle /\ CallIdle /\ AllIdle
NextWeekly ==
    \/ WeeklyAuditDay /\ UNCHANGED <<callVars, apsVars, monVars, bellVars, runVars, allVars>>
    \/ WeeklyReturn /\ UNCHANGED <<callVars, apsVars, monVars, bellVars, runVars, allVars>>
SpecWeekly == InitWeekly /\ [][NextWeekly]_vars

\* the property keeps pace with the market: ourOcc >= 0.80 * marketOcc, in the
\* engine's arithmetic (0.64 against 0.80 * 0.8 = 0.6400000000000001 does not)
KeepsPace(ourOcc, marketOcc) ==
    RGe(ourOcc, QMul(<<4, 5>>, marketOcc),
        Num(ourOcc), Times(Num(<<4, 5>>), Num(marketOcc)))

\* the days audited so far are 0, 1, ... in that order, and the list holds no
\* more entries than days, none of them a NO_ACTION
AuditedInOrder ==
    LET recs == wLoop.recommendations
    IN  /\ wLoop.i \in 0..14
        /\ Len(wAudited) = wLoop.i
        /\ \A k \in 1..Len(wAudited) : wAudited[k] = k - 1
        /\ Len(recs) <= wLoop.i
        /\ \A k \in 1..Len(recs) :
              recs[k].type \in { "RATE_INCREASE", "PRICE_DROP", "APPLY_PROMOTION" }
        /\ KeepsPace(wArgs.propertyOcc, wArgs.marketForwardOcc) => recs = <<>>
        /\ wRet # Undefined =>
              /\ wLoop.i = 14
              /\ wRet.recommendations = recs
              /\ wRet.counts.total = Len(recs)

\* the audit of a day leaves the list as it was when no rule matches the day
\* and puts one entry, the day's, behind the entries of the days before it
\* when one does; nothing else changes the list
AtMostOneEntryForTheDay ==
    LET recs == wLoop.recommendations
        after == wLoop'.recommendations
    IN  IF wLoop'.i # wLoop.i
        THEN /\ wLoop'.i = wLoop.i + 1
             /\ wAudited' = Append(wAudited, wLoop.i)
             /\ (after = recs) <=> KeepsPace(wArgs.propertyOcc, wArgs.marketForwardOcc)
             /\ after # recs =>
                   /\ Len(after) = Len(recs) + 1
                   /\ SubSeq(after, 1, Len(recs)) = recs
                   /\ after[Len(after)].currentPrice = wArgs.currentPrice
        ELSE after = recs /\ wAudited' = wAudited

\* C8: the review audits the day offsets 0..13 in ascending order; its list
\* holds at most one entry per audited day, in day order; a day on which no
\* rule matches contributes no entry; no entry has type NO_ACTION.
C8_OneEntryPerDayInOrder ==
    /\ []AuditedInOrder
    /\ [][AtMostOneEntryForTheDay]_vars

\* C8 witness: a finished review whose 14 days all matched a rule, price
\* drops first and promotions after
C8_Witness ==
    /\ wRet # Undefined
    /\ Len(wRet.recommendations) = 14
    /\ wRet.recommendations[1].type = "PRICE_DROP"
    /\ wRet.recommendations[14].type = "APPLY_PROMOTION"

(* ------------------------------------------------------------------------ *)
(* One generateReport run, one step per await                               *)
(* ------------------------------------------------------------------------ *)

OptsSet ==
    [ hospConfigured : BOOLEAN,
      fallbackMarketUuid : { "", "env-market" },
      previousAPS : { QInt(1), Q(8, 5) },
      currentTargetRent : { QInt(65000) },
      daysOut : { QInt(5), QInt(21) } ]

\* what fetchPropertyDetails may resolve to, without and with a city: a listing
\* with every detail, one without sleeps and without a Key Data amenity, and
\* one for which the API gave no detail (0, 0, 0, "", no amenities)
PropertyDetailsSet ==
    { [ city |-> c, state |-> "HI", bedrooms |-> d[1], bathrooms |-> d[2],
        sleeps |-> d[3], propertyType |-> d[4], amenities |-> d[5] ] :
        c \in { "", "Lahaina" },
        d \in { << QInt(3), QInt(2), QInt(6), "house", { "pool", "wifi" } >>,
                << QInt(3), QInt(2), QInt(0), "house", { "wifi" } >>,
                << QInt(0), QInt(0), QInt(0), "", {} >> } }

\* how findMarketForLocation may end
MarketLookupSet ==
    { [ outcome |-> "rejected" ],
      [ outcome |-> "resolved", matched |-> FALSE ],
      [ outcome |-> "resolved", matched |-> TRUE, id |-> "matched-market",
        subscribed |-> TRUE ],
      [ outcome |-> "resolved", matched |-> TRUE, id |-> "matched-market",
        subscribed |-> FALSE ] }

\* the value fetchMonthlyKPIs returns for the given averages
monthlyKPIs(marketRevPAR, avgOccupancy, avgADR, peakADR, avgStayLength, n) ==
    [ marketRevPAR |-> marketRevPAR,
      annualRevPar |-> QMul(marketRevPAR, QInt(365)),
      avgOccupancy |-> avgOccupancy, avgADR |-> avgADR, peakADR |-> peakADR,
      avgStayLength |-> avgStayLength, dataPoints |-> n ]

\* settled monthly requests: rejected, no usable rows (dataPoints 0), a busy
\* market at half the property's RevPAR over 9 dates and at twice the
\* property's RevPAR over 10 dates
MonthlyOutcomeSet ==
    { [ status |-> "rejected" ],
      [ status |-> "fulfilled",
        value |-> monthlyKPIs(QInt(0), QInt(0), QInt(0), QInt(0), QInt(0), QInt(0)) ],
      [ status |-> "fulfilled",
        value |-> monthlyKPIs(Q(863, 8), Q(4, 5), QInt(100), QInt(300), QInt(5),
                              QInt(MIN_COMPS - 1)) ],
      [ status |-> "fulfilled",
        value |-> monthlyKPIs(Q(863, 2), Q(4, 5), QInt(500), QInt(800), QInt(0),
                              QInt(MIN_COMPS)) ] }

\* settled weekly requests: rejected, pacing at 250 with 3-night stays
WeeklyOutcomeSet ==
    { [ status |-> "rejected" ],
      [ status |-> "fulfilled",
        value |-> [ futureAdr |-> QInt(250), avgStayLength |-> QInt(3) ] ] }

Pending == [ status |-> "pending" ]

\* a fetchMarketDataSafe call starts: both KPI requests go out together
IssueFetch(log, tier, filters) ==
    /\ requests' = [ monthly |-> Pending, weekly |-> Pending ]
    /\ fetchLog' = Append(log, [ tier |-> tier, filters |-> filters,
                                 done |-> FALSE, result |-> Undefined,
                                 settled |-> Undefined, monthlyDataPoints |-> Undefined ])

\* Promise.all has settled: one request rejected, or both fulfilled
FetchSettled ==
    /\ requests # Undefined
    /\ \/ requests.monthly.status = "rejected"
       \/ requests.weekly.status = "rejected"
       \/ requests.monthly.status = "fulfilled" /\ requests.weekly.status = "fulfilled"

\* the value the fetchMarketDataSafe call in flight resolves to: data and
\* live, nothing else
Received == marketDataSafe(requests.monthly, requests.weekly)

\* the log entry of the returning call: its result, how its two requests
\* stood when it returned, and the dataPoints of the monthly KPIs behind a
\* live result, which the result itself does not carry
Logged(result) ==
    [ fetchLog EXCEPT ![Len(fetchLog)] =
        [ @ EXCEPT !.done = TRUE, !.result = result,
                   !.settled = [ monthly |-> requests.monthly.status,
                                 weekly |-> requests.weekly.status ],
                   !.monthlyDataPoints =
                       IF result.live THEN requests.monthly.value.dataPoints
                       ELSE Undefined ] ]

\* mutant: the market guard is missing, the first fetch is issued regardless
GuardAndFirstFetch_noGuard(uuid, filters, label) ==
    /\ marketUuid' = uuid
    /\ compFilters' = filters
    /\ filterLabel' = label
    /\ compTier' = "Broad"
    /\ IF filters # Undefined
       THEN /\ IssueFetch(fetchLog, "Strict", strictFilters(filters))
            /\ pc' = "awaitStrict"
       ELSE /\ IssueFetch(fetchLog, "Whole Market", noFilters)
            /\ pc' = "awaitWholeMarket"
    /\ UNCHANGED <<marketResult, report>>

\* from the end of the property-details block to the first fetch
GuardAndFirstFetch(uuid, filters, label) ==
    /\ marketUuid' = uuid
    /\ compFilters' = filters
    /\ filterLabel' = label
    /\ IF uuid = ""
       THEN /\ report' = noMarketError
            /\ pc' = "done"
            /\ UNCHANGED <<compTier, requests, fetchLog, marketResult>>
       ELSE /\ compTier' = "Broad"
            /\ IF filters # Undefined
               THEN /\ IssueFetch(fetchLog, "Strict", strictFilters(filters))
                    /\ pc' = "awaitStrict"
               ELSE /\ IssueFetch(fetchLog, "Whole Market", noFilters)
                    /\ pc' = "awaitWholeMarket"
            /\ UNCHANGED <<marketResult, report>>

GR_Begin ==
    /\ pc = "start"
    /\ IF opts.hospConfigured
       THEN /\ pc' = "awaitDetails"
            /\ marketUuid' = opts.fallbackMarketUuid
            /\ filterLabel' = wholeMarketLabel
            /\ UNCHANGED <<compFilters, compTier, requests, fetchLog, marketResult,
                           report>>
       ELSE GuardAndFirstFetch(opts.fallbackMarketUuid, Undefined, wholeMarketLabel)
    /\ UNCHANGED <<opts, details>>

GR_DetailsRejected ==
    /\ pc = "awaitDetails"
    /\ GuardAndFirstFetch(marketUuid, Undefined, filterLabel)
    /\ UNCHANGED <<opts, details>>

GR_DetailsResolved ==
    /\ pc = "awaitDetails"
    /\ \E d \in PropertyDetailsSet :
          /\ details' = d
          /\ IF d.city # ""
             THEN /\ pc' = "awaitMarket"
                  /\ UNCHANGED <<compFilters, marketUuid, filterLabel, compTier,
                                 requests, fetchLog, marketResult, report>>
             ELSE GuardAndFirstFetch(marketUuid, compFiltersOf(d),
                      detailsLabel(filterLabel, d, d.amenities \cap KEY_DATA_AMENITIES))
    /\ UNCHANGED opts

GR_MarketLookupReturns ==
    /\ pc = "awaitMarket"
    /\ \E m \in MarketLookupSet :
          LET uuid == IF m.outcome = "resolved" /\ m.matched /\ m.subscribed
                      THEN m.id ELSE marketUuid
          IN  GuardAndFirstFetch(uuid, compFiltersOf(details),
                  detailsLabel(filterLabel, details,
                               details.amenities \cap KEY_DATA_AMENITIES))
    /\ UNCHANGED <<opts, details>>

MonthlyKPIsSettle ==
    /\ requests # Undefined
    /\ requests.monthly.status = "pending"
    /\ \E r \in MonthlyOutcomeSet : requests' = [ requests EXCEPT !.monthly = r ]
    /\ UNCHANGED <<pc, opts, details, compFilters, marketUuid, filterLabel, compTier,
                   fetchLog, marketResult, report>>

WeeklyKPIsSettle ==
    /\ requests # Undefined
    /\ requests.weekly.status = "pending"
    /\ \E r \in WeeklyOutcomeSet : requests' = [ requests EXCEPT !.weekly = r ]
    /\ UNCHANGED <<pc, opts, details, compFilters, marketUuid, filterLabel, compTier,
                   fetchLog, marketResult, report>>

\* a fetch of the filtered branch returns: Strict, then Standard and Broad,
\* each relaxed to the next tier when its result is below MIN_COMPS
GR_FilteredFetchReturns ==
    /\ pc \in { "awaitStrict", "awaitStandard", "awaitBroad" }
    /\ FetchSettled
    /\ marketResult' = Received
    /\ compTier' = CASE pc = "awaitStrict" -> "Strict"
                     [] pc = "awaitStandard" -> "Standard"
                     [] pc = "awaitBroad" -> "Broad"
    /\ IF pc = "awaitStrict" /\ belowMinComps(Received)
       THEN /\ IssueFetch(Logged(Received), "Standard", standardFilters(compFilters))
            /\ pc' = "awaitStandard"
            /\ filterLabel' = filterLabel
       ELSE IF pc = "awaitStandard" /\ belowMinComps(Received)
       THEN /\ IssueFetch(Logged(Received), "Broad", broadFilters(compFilters))
            /\ pc' = "awaitBroad"
            /\ filterLabel' = standardLabel(compFilters)
       ELSE /\ fetchLog' = Logged(Received)
            /\ requests' = Undefined
            /\ pc' = "awaitPropertyStats"
            /\ filterLabel' = CASE pc = "awaitStrict" -> filterLabel
                                 [] pc = "awaitStandard" -> standardLabel(compFilters)
                                 [] pc = "awaitBroad" -> broadLabel(compFilters)
    /\ UNCHANGED <<opts, details, compFilters, marketUuid, report>>

\* the fetch without filters returns
GR_WholeMarketReturns ==
    /\ pc = "awaitWholeMarket"
    /\ FetchSettled
    /\ marketResult' = Received
    /\ fetchLog' = Logged(Received)
    /\ compTier' = "Whole Market"
    /\ requests' = Undefined
    /\ pc' = "awaitPropertyStats"
    /\ UNCHANGED <<opts, details, compFilters, marketUuid, filterLabel, report>>

GR_PropertyStatsReturn ==
    /\ pc = "awaitPropertyStats"
    /\ \E today \in ClockSet :
          report' = engineReport(opts, compTier, filterLabel, marketResult,
                                 fetchPropertyStatsSafe, today)
    /\ pc' = "done"
    /\ UNCHANGED <<opts, details, compFilters, marketUuid, filterLabel, compTier,
                   requests, fetchLog, marketResult>>

Init == ApsIdle /\ MonIdle /\ BellIdle /\ WkIdle /\ pc = "start" /\ opts \in OptsSet /\ RunFresh /\ CallIdle /\ AllIdle
Next ==
    \/ GR_Begin /\ UNCHANGED <<callVars, apsVars, monVars, bellVars, wkVars, allVars>>
    \/ GR_DetailsRejected /\ UNCHANGED <<callVars, apsVars, monVars, bellVars, wkVars, allVars>>
    \/ GR_DetailsResolved /\ UNCHANGED <<callVars, apsVars, monVars, bellVars, wkVars, allVars>>
    \/ GR_MarketLookupReturns /\ UNCHANGED <<callVars, apsVars, monVars, bellVars, wkVars, allVars>>
    \/ MonthlyKPIsSettle /\ UNCHANGED <<callVars, apsVars, monVars, bellVars, wkVars, allVars>>
    \/ WeeklyKPIsSettle /\ UNCHANGED <<callVars, apsVars, monVars, bellVars, wkVars, allVars>>
    \/ GR_FilteredFetchReturns /\ UNCHANGED <<callVars, apsVars, monVars, bellVars, wkVars, allVars>>
    \/ GR_WholeMarketReturns /\ UNCHANGED <<callVars, apsVars, monVars, bellVars, wkVars, allVars>>
    \/ GR_PropertyStatsReturn /\ UNCHANGED <<callVars, apsVars, monVars, bellVars, wkVars, allVars>>
Spec == Init /\ [][Next]_vars

\* the last fetchMarketDataSafe call of the run
LastFetch == fetchLog[Len(fetchLog)]

\* the run has returned a report (not the error text)
Reported == pc = "done" /\ report.kind = "report"

\* the tier after a tier in the order of relaxation
NextTier(tier) ==
    CASE tier = "Strict" -> "Standard"
      [] tier = "Standard" -> "Broad"
      [] tier = "Broad" -> "Whole Market"

\* the fetch completed on live data whose monthly KPIs counted fewer than
\* MIN_COMPS dataPoints
ReturnedTooFew(entry) ==
    /\ entry.done
    /\ entry.monthlyDataPoints # Undefined
    /\ QLt(entry.monthlyDataPoints, QInt(MIN_COMPS))

\* the fetch completed on live data whose monthly KPIs counted at least
\* MIN_COMPS dataPoints
ReturnedEnough(entry) ==
    /\ entry.done
    /\ entry.monthlyDataPoints # Undefined
    /\ QGe(entry.monthlyDataPoints, QInt(MIN_COMPS))

\* C2: with comparable filters, a Strict, Standard or Broad fetch that
\* returned fewer than MIN_COMPS comps is followed by the fetch of the next
\* tier in the order Strict, Standard, Broad, Whole Market, the Whole Market
\* fetch being sent without filters; the run reports the tier and the data of
\* its last fetch.
C2_RelaxThroughTiers ==
    /\ \A k \in 1..Len(fetchLog) :
          (/\ compFilters # Undefined
           /\ fetchLog[k].tier \in { "Strict", "Standard", "Broad" }
           /\ ReturnedTooFew(fetchLog[k]))
              => /\ k < Len(fetchLog)
                 /\ fetchLog[k + 1].tier = NextTier(fetchLog[k].tier)
                 /\ fetchLog[k + 1].tier = "Whole Market" =>
                       fetchLog[k + 1].filters = Undefined
    /\ Reported =>
          /\ report.compTier = LastFetch.tier
          /\ report.market = LastFetch.result.data

\* C3: a fetch that returned at least 10 comps is the last fetch of its run,
\* and the run reports that fetch's tier, MarketData and sample count; the
\* reported tier is one of Strict, Standard, Broad, Whole Market.
C3_StopAtFirstSufficientTier ==
    /\ \A k \in 1..Len(fetchLog) :
          ReturnedEnough(fetchLog[k]) =>
              /\ k = Len(fetchLog)
              /\ pc \in { "awaitPropertyStats", "done" }
              /\ compTier = fetchLog[k].tier
              /\ marketResult = fetchLog[k].result
    /\ Reported =>
          /\ report.compTier \in { "Strict", "Standard", "Broad", "Whole Market" }
          /\ report.compTier = LastFetch.tier
          /\ report.market = LastFetch.result.data
          /\ ReturnedEnough(LastFetch) =>
                report.dataPoints = LastFetch.monthlyDataPoints

\* C4: every fetch but the last of a run has completed with fewer than 10
\* comps before the next was issued; at most one fetch is in flight, and it is
\* the last one issued; no two fetches of a run are for the same tier.
C4_SequentialNoRetry ==
    /\ \A k \in 1..(Len(fetchLog) - 1) : ReturnedTooFew(fetchLog[k])
    /\ Cardinality({ k \in 1..Len(fetchLog) : ~fetchLog[k].done }) <= 1
    /\ (requests # Undefined) <=> (Len(fetchLog) > 0 /\ ~LastFetch.done)
    /\ \A j, k \in 1..Len(fetchLog) : j < k => fetchLog[j].tier # fetchLog[k].tier

\* C4 witness: the Strict fetch of a run with property details completed on
\* live data with 10 dataPoints; the run went on to the property statistics
\* with that one fetch, none in flight
C4_Witness ==
    /\ pc = "awaitPropertyStats"
    /\ details # Undefined
    /\ Len(fetchLog) = 1
    /\ fetchLog[1].tier = "Strict"
    /\ ReturnedEnough(fetchLog[1])
    /\ fetchLog[1].monthlyDataPoints = QInt(MIN_COMPS)
    /\ requests = Undefined

\* the recommendations of a report: the weekly schedule, then the promotions
AllRecommendations == report.weekly.recommendations \o report.extended

\* C7 as stated: no recommendation of a run has a suggestedPrice below the
\* Min Price of that run.
C7_NoSuggestionBelowMinPrice ==
    Reported =>
        \A k \in 1..Len(AllRecommendations) :
            ~QLt(AllRecommendations[k].suggestedPrice, report.minPrice)

(* ------------------------------------------------------------------------ *)
(* Calls of calculateSlidingScaleDiscount                                   *)
(* ------------------------------------------------------------------------ *)

\* base and maximum discounts: the three operating modes, and two pairs whose
\* base discount alone reaches or exceeds the maximum
DiscountPairSet ==
    { <<OPERATING_MODES.AGGRESSIVE.baseDiscount, OPERATING_MODES.AGGRESSIVE.maxDiscount>>,
      <<OPERATING_MODES.STANDARD.baseDiscount, OPERATING_MODES.STANDARD.maxDiscount>>,
      <<OPERATING_MODES.DEFENSIVE.baseDiscount, OPERATING_MODES.DEFENSIVE.maxDiscount>>,
      <<Q(1, 5), Q(3, 20)>>, <<Q(1, 5), Q(1, 5)>>, <<QInt(0), Q(1, 10)>> }

CallSlidingScale ==
    /\ bCall = NoCall
    /\ \E p \in DiscountPairSet, d \in DaysToArrivalSet :
          bCall' = [ fn |-> "calculateSlidingScaleDiscount",
                     baseDiscount |-> p[1], maxDiscount |-> p[2], daysToArrival |-> d,
                     ret |-> calculateSlidingScaleDiscount(p[1], p[2], d) ]

InitDiscount == ApsIdle /\ MonIdle /\ bCall = NoCall /\ WkIdle /\ RunIdle /\ CallIdle /\ AllIdle
NextDiscount ==
    \/ CallSlidingScale /\ UNCHANGED <<callVars, apsVars, monVars, wkVars, runVars, allVars>>
SpecDiscount == InitDiscount /\ [][NextDiscount]_vars

\* the multiplier and label the bracket table gives a whole number of days
BracketOfDay(d) ==
    IF d <= 3 THEN [ multiplier |-> <<2, 1>>, label |-> "0-3d (2x)" ]
    ELSE IF d <= 7 THEN [ multiplier |-> <<3, 2>>, label |-> "4-7d (1.5x)" ]
    ELSE IF d <= 14 THEN [ multiplier |-> <<5, 4>>, label |-> "8-14d (1.25x)" ]
    ELSE IF d <= 30 THEN [ multiplier |-> <<1, 1>>, label |-> "15-30d (1x)" ]
    ELSE [ multiplier |-> <<3, 4>>, label |-> "31+d (0.75x)" ]

\* C11: for every whole daysToArrival >= 0 calculateSlidingScaleDiscount takes
\* the bracket that contains the day (0-3 x2, 4-7 x1.5, 8-14 x1.25, 15-30 x1,
\* 31+ x0.75); finalDiscount = min(baseDiscount * multiplier, maxDiscount),
\* which never exceeds maxDiscount; cappedByMax holds exactly when
\* baseDiscount * multiplier > maxDiscount.
C11_SlidingScaleDiscount ==
    (bCall.fn = "calculateSlidingScaleDiscount" /\ bCall.daysToArrival[2] = 1) =>
        LET b == BracketOfDay(bCall.daysToArrival[1])
            raw == QMul(bCall.baseDiscount, b.multiplier)
        IN  /\ bCall.ret.multiplier = b.multiplier
            /\ bCall.ret.bracketLabel = b.label
            /\ bCall.ret.baseDiscount = bCall.baseDiscount
            /\ bCall.ret.calculatedDiscount = raw
            /\ bCall.ret.finalDiscount = (IF QLt(raw, bCall.maxDiscount)
                                          THEN raw ELSE bCall.maxDiscount)
            /\ QLe(bCall.ret.finalDiscount, bCall.maxDiscount)
            /\ bCall.ret.cappedByMax <=>
                  RGt(raw, bCall.maxDiscount,
                      Times(Num(bCall.baseDiscount), Num(b.multiplier)),
                      Num(bCall.maxDiscount))

\* C11 witness: Defensive mode 3 days out: 0.15 * 2.0 = 0.30 meets the maximum
\* 0.30 exactly, so finalDiscount is 0.30 and the cap is not flagged
C11_Witness ==
    /\ bCall.fn = "calculateSlidingScaleDiscount"
    /\ bCall.daysToArrival = QInt(3)
    /\ bCall.baseDiscount = Q(3, 20)
    /\ bCall.maxDiscount = Q(3, 10)
    /\ bCall.ret.bracketLabel = "0-3d (2x)"
    /\ bCall.ret.finalDiscount = Q(3, 10)
    /\ ~bCall.ret.cappedByMax

(* ------------------------------------------------------------------------ *)
(* Calls of scanAllPromotions, one after another                            *)
(* ------------------------------------------------------------------------ *)

\* property and market occupancy: a velocity gap of 0.35 and two gaps of 0.15
\* in decimals: 0.35 - 0.2 is the double 0.14999999999999997 (not above the
\* threshold) and 0.65 - 0.5 is 0.15000000000000002 (above it); the property
\* is below and at 0.50
PromotionOccSet == { <<Q(1, 5), Q(7, 20)>>, <<Q(3, 10), Q(13, 20)>>, <<Q(1, 2), Q(13, 20)>> }

\* arguments on both sides of every threshold of the three rules: a centroid
\* below and one equal to the price, 7 and 8 days out, stay lengths unknown,
\* below and at 3 nights, market stays unknown, 3.9 and 4 nights
PromotionArgsSet ==
    { [ myOcc |-> o[1], marketOcc |-> o[2], currentPrice |-> QInt(349),
        dynamicCentroid |-> c, aps |-> Q(17, 20), daysOut |-> d, marketState |-> "HOT",
        avgBookingLength |-> b, marketAvgBookingLength |-> m ] :
      o \in PromotionOccSet, c \in { Q(527, 2), QInt(349) }, d \in { QInt(7), QInt(8) },
      b \in { Undefined, Q(12, 5), QInt(3) }, m \in { Undefined, Q(39, 10), QInt(4) } }

\* the set of recommendation types in a returned list
TypesOf(recs) == { recs[k].type : k \in 1..Len(recs) }

CallScanAllPromotions ==
    \E a \in PromotionArgsSet :
        LET ret == scanAllPromotions(a.myOcc, a.marketOcc, a.currentPrice,
                                     a.dynamicCentroid, a.aps, a.daysOut, a.marketState,
                                     a.avgBookingLength, a.marketAvgBookingLength)
        IN  /\ pCall' = [ fn |-> "scanAllPromotions", args |-> a, ret |-> ret ]
            /\ pSeen' = pSeen \cup { TypesOf(ret) }
            /\ UNCHANGED fCall

InitPromo == ApsIdle /\ MonIdle /\ BellIdle /\ WkIdle /\ RunIdle /\ CallIdle /\ AllIdle
NextPromo ==
    \/ CallScanAllPromotions /\ UNCHANGED <<apsVars, monVars, bellVars, wkVars, runVars, allVars>>
SpecPromo == InitPromo /\ [][NextPromo]_vars

\* C12: each of the three rules of scanAllPromotions is decided by its own
\* condition alone: the velocity-gap APPLY_PROMOTION is returned iff
\* marketOcc - ourOcc > 0.15 and currentPrice > dynamicCentroid, the
\* LAST_MINUTE_DEAL iff daysOut <= 7 and ourOcc < 0.50, the
\* EXTENDED_STAY_INCENTIVE iff both stay lengths are known, the property's is
\* below 3 and the market's at least 4; each at most once, in this order.
C12_RulesIndependent ==
    pCall.fn = "scanAllPromotions" =>
        LET a == pCall.args
            recs == pCall.ret
            velocity == /\ RGt(QSub(a.marketOcc, a.myOcc), Q(15, 100),
                               Minus(Num(a.marketOcc), Num(a.myOcc)),
                               Num(Q(15, 100)))
                        /\ QGt(a.currentPrice, a.dynamicCentroid)
            lastMinute == QLe(a.daysOut, QInt(7)) /\ QLt(a.myOcc, Q(1, 2))
            extended == /\ a.avgBookingLength # Undefined
                        /\ a.marketAvgBookingLength # Undefined
                        /\ QLt(a.avgBookingLength, QInt(3))
                        /\ QGe(a.marketAvgBookingLength, QInt(4))
        IN  /\ ("APPLY_PROMOTION" \in TypesOf(recs)) <=> velocity
            /\ ("LAST_MINUTE_DEAL" \in TypesOf(recs)) <=> lastMinute
            /\ ("EXTENDED_STAY_INCENTIVE" \in TypesOf(recs)) <=> extended
            /\ TypesOf(recs) \subseteq
                  { "APPLY_PROMOTION", "LAST_MINUTE_DEAL", "EXTENDED_STAY_INCENTIVE" }
            /\ Len(recs) = Cardinality(TypesOf(recs))
            /\ \A j, k \in 1..Len(recs) :
                  j < k => /\ recs[k].type # "APPLY_PROMOTION"
                           /\ recs[j].type # "EXTENDED_STAY_INCENTIVE"

\* C12 witness: every one of the eight subsets of the three rules has been
\* returned by some call, and the last call returned all three together
C12_Witness ==
    /\ pCall.fn = "scanAllPromotions"
    /\ Len(pCall.ret) = 3
    /\ pSeen = SUBSET { "APPLY_PROMOTION", "LAST_MINUTE_DEAL", "EXTENDED_STAY_INCENTIVE" }

(* ------------------------------------------------------------------------ *)
(* generateReport: the market guard                                         *)
(* ------------------------------------------------------------------------ *)

\* C13: a run that has passed the property-details block without a market
\* UUID (empty fallback UUID and no subscribed market matched) has returned
\* the 'No market UUID available' error text and nothing else: no market-data
\* fetch was issued, it never waits for property stats, and no engine value
\* was computed; conversely the error text is returned only in that case.
C13_NoMarketDeclines ==
    /\ (pc \notin { "start", "awaitDetails", "awaitMarket" } /\ marketUuid = "") =>
          /\ pc = "done"
          /\ report = noMarketError
          /\ fetchLog = <<>>
          /\ requests = Undefined
          /\ marketResult = Undefined
    /\ (pc = "done" /\ report.kind = "error") =>
          /\ marketUuid = ""
          /\ opts.fallbackMarketUuid = ""
    /\ (pc \in { "awaitStrict", "awaitStandard", "awaitBroad", "awaitWholeMarket",
                 "awaitPropertyStats" } \/ fetchLog # <<>>) => marketUuid # ""

\* C13 witness: the property has a city, the market lookup has returned
\* without a subscribed match, the fallback UUID is empty, and the run has
\* ended with the error text
C13_Witness ==
    /\ pc = "done"
    /\ opts.fallbackMarketUuid = ""
    /\ details # Undefined
    /\ details.city = "Lahaina"
    /\ compFilters # Undefined
    /\ report = noMarketError
    /\ fetchLog = <<>>

(* ------------------------------------------------------------------------ *)
(* fetchMarketDataSafe: failures end in the fallback record                 *)
(* ------------------------------------------------------------------------ *)

\* the step in which the fetchMarketDataSafe call in flight returns
FetchReturns ==
    /\ Len(fetchLog) > 0
    /\ ~fetchLog[Len(fetchLog)].done
    /\ fetchLog'[Len(fetchLog)].done

\* the fields every MarketData carries, and the fallback record of the source
MarketDataFields ==
    { "marketRevPAR", "marketOccupancy", "market20thPctlADR", "peakFutureADR",
      "avgFutureMarketADR", "totalMarketAnnualRevPAR", "avgADR" }

\* a record with every required MarketData field a finite number
CompleteMarketData(data) ==
    /\ MarketDataFields \subseteq DOMAIN data
    /\ \A f \in MarketDataFields : Len(data[f]) = 2 /\ IsFinite(data[f])

\* what a returning fetch hands to generateReport when a request had failed
FailureGivesFallback ==
    (FetchReturns /\ (requests.monthly.status = "rejected"
                      \/ requests.weekly.status = "rejected")) =>
        /\ marketResult'.live = FALSE
        /\ marketResult'.data =
              [ marketRevPAR |-> Q(18950, 100), marketOccupancy |-> Q(72, 100),
                market20thPctlADR |-> QInt(155), peakFutureADR |-> QInt(485),
                avgFutureMarketADR |-> QInt(310), totalMarketAnnualRevPAR |-> QInt(69178),
                avgADR |-> Q(26319, 100), avgBookingLength |-> Q(48, 10) ]
        /\ fetchLog'[Len(fetchLog)].result = marketResult'
        /\ pc' \in { "awaitStandard", "awaitBroad", "awaitPropertyStats" }

\* C14: a fetchMarketDataSafe call one of whose KPI requests has failed
\* returns the fixed fallback MarketData with live = false and the run goes
\* on; every market result of a run, and the record the engines of a finished
\* run computed on, is a complete MarketData record.
C14_FailureEndsInFallback ==
    /\ [][FailureGivesFallback]_vars
    /\ [](/\ marketResult # Undefined => CompleteMarketData(marketResult.data)
          /\ Reported => /\ report.market = marketResult.data
                          /\ CompleteMarketData(report.market)
                          /\ report.marketLive = marketResult.live)

\* C14 witness: the weekly request of the only fetch failed while the monthly
\* one succeeded; the run finished on the fallback record, reported as not live
C14_Witness ==
    /\ Reported
    /\ Len(fetchLog) = 1
    /\ ~report.marketLive
    /\ report.market = getFallbackMarketData
    /\ report.basePrice = QMul(Q(26319, 100), report.newAPS)

(* ------------------------------------------------------------------------ *)
(* Direct calls of the engine functions                                     *)
(* ------------------------------------------------------------------------ *)

\* non-negative arguments, zero included
RevPARArgSet == { QInt(0), QInt(95), QInt(115) }
MarketRevPARArgSet == { QInt(0), QInt(100) }
APSArgSet == { QInt(0), Q(4, 5), QInt(1), Q(209, 200), Q(8, 5) }
IndexArgSet == { QInt(0), QInt(1), Q(23, 20), QInt(4) }
PriceArgSet == { QInt(0), QInt(110), QInt(120), QInt(300), QInt(349) }
OccArgSet == { QInt(0), Q(1, 100), Q(1, 5), Q(29, 50), Q(18, 25) }
RatioArgSet == { QInt(0), Q(1, 2), Q(7, 10), Q(4, 5), QInt(1), Q(3, 2), QInt(2) }
ForwardOccArgSet ==
    { QInt(0), Q(2, 5), Q(11, 25), Q(9, 20), Q(1, 2), Q(27, 50), Q(11, 20), Q(3, 5),
      Q(63, 100), Q(3, 4), Q(4, 5) }
HistoricalOccArgSet == { QInt(0), Q(3, 10), Q(2, 5), Q(1, 2), Q(3, 5), Q(7, 10), QInt(1) }
AlignmentDaysSet == { QInt(0), QInt(5), QInt(27), QInt(40) }

CallPerformanceIndex ==
    /\ fCall = NoCall
    /\ \E my \in RevPARArgSet, market \in MarketRevPARArgSet :
          fCall' = [ fn |-> "calculatePerformanceIndex",
                     args |-> [ myRevPAR |-> my, marketRevPAR |-> market ],
                     ret |-> calculatePerformanceIndex(my, market) ]

CallNewAPS ==
    /\ fCall = NoCall
    /\ \E prev \in APSArgSet, index \in IndexArgSet :
          fCall' = [ fn |-> "calculateNewAPS",
                     args |-> [ previousAPS |-> prev, index |-> index ],
                     ret |-> calculateNewAPS(prev, index) ]

CallMinPrice ==
    /\ fCall = NoCall
    /\ \E p20 \in PriceArgSet, low \in PriceArgSet :
          fCall' = [ fn |-> "calculateMinPrice",
                     args |-> [ market20thPctl |-> p20, lastYearLowest |-> low ],
                     ret |-> calculateMinPrice(p20, low) ]

CallMaxPrice ==
    /\ fCall = NoCall
    /\ \E peak \in PriceArgSet, a \in APSArgSet :
          fCall' = [ fn |-> "calculateMaxPrice",
                     args |-> [ peakFutureADR |-> peak, aps |-> a ],
                     ret |-> calculateMaxPrice(peak, a) ]

CallDeriveADR ==
    /\ fCall = NoCall
    /\ \E revPAR \in RevPARArgSet, occ \in OccArgSet :
          fCall' = [ fn |-> "deriveADR",
                     args |-> [ revPAR |-> revPAR, occupancy |-> occ ],
                     ret |-> deriveADR(revPAR, occ) ]

CallPerformanceMultipliers ==
    /\ fCall = NoCall
    /\ \E ourOcc \in { QInt(0), Q(29, 50) }, ourRevPAR \in { QInt(0), QInt(115) },
          ourADR \in { QInt(0), QInt(300) }, compOcc \in { QInt(0), Q(18, 25) },
          compRevPAR \in { QInt(0), QInt(100) }, compADR \in { QInt(0), QInt(120) } :
          fCall' = [ fn |-> "calculatePerformanceMultipliers",
                     args |-> [ ourOcc |-> ourOcc, ourRevPAR |-> ourRevPAR, ourADR |-> ourADR,
                                compOcc |-> compOcc, compRevPAR |-> compRevPAR,
                                compADR |-> compADR ],
                     ret |-> calculatePerformanceMultipliers(ourOcc, ourRevPAR, ourADR,
                                                             compOcc, compRevPAR, compADR) ]

CallDiagnoseMultipliers ==
    /\ fCall = NoCall
    /\ \E occ \in RatioArgSet, revPAR \in RatioArgSet, adr \in RatioArgSet :
          fCall' = [ fn |-> "diagnoseErrorForecasting",
                     args |-> [ occupancy |-> occ, revPAR |-> revPAR, adr |-> adr ],
                     ret |-> diagnoseErrorForecasting([ occupancy |-> occ, revPAR |-> revPAR,
                                                        adr |-> adr ]) ]

CallMarketState ==
    /\ fCall = NoCall
    /\ \E fwd \in ForwardOccArgSet, hist \in HistoricalOccArgSet :
          fCall' = [ fn |-> "determineMarketState",
                     args |-> [ forwardOccupancy |-> fwd, historicalOccupancyPace |-> hist ],
                     ret |-> determineMarketState(fwd, hist) ]

CallEarlyDemand ==
    /\ fCall = NoCall
    /\ \E ourOcc \in OccArgSet, marketOcc \in OccArgSet :
          fCall' = [ fn |-> "checkEarlyDemand",
                     args |-> [ ourOcc |-> ourOcc, marketOcc |-> marketOcc ],
                     ret |-> checkEarlyDemand(ourOcc, marketOcc) ]

CallMarketAlignment ==
    /\ fCall = NoCall
    /\ \E ourPrice \in PriceArgSet \cup { QInt(77) },
          fair \in PriceArgSet \cup { QInt(125) }, a \in APSArgSet,
          d \in AlignmentDaysSet :
          fCall' = [ fn |-> "checkMarketAlignment",
                     args |-> [ ourPrice |-> ourPrice, fairMarketPrice |-> fair,
                                fullAPS |-> a, daysToArrival |-> d ],
                     ret |-> checkMarketAlignment(ourPrice, fair, a, d) ]

CallOperatingMode ==
    /\ fCall = NoCall
    /\ \E state \in { "HOT", "COLD", "NEUTRAL" } :
          fCall' = [ fn |-> "getOperatingMode", args |-> [ state |-> state ],
                     ret |-> getOperatingMode(state) ]

CallWeeklyReview ==
    /\ fCall = NoCall
    /\ \E propertyOcc \in { Q(2, 5), Q(29, 50) }, fwd \in ForwardOccArgSet,
          hist \in HistoricalOccArgSet, today \in ClockSet :
          fCall' = [ fn |-> "runWeeklyBellCurveReview",
                     args |-> [ propertyOcc |-> propertyOcc, currentPrice |-> QInt(200),
                                fullAPS |-> QInt(1), marketForwardOcc |-> fwd,
                                marketHistoricalOcc |-> hist, marketAvgADR |-> QInt(310) ],
                     today |-> today,
                     ret |-> runWeeklyBellCurveReview(propertyOcc, QInt(200), QInt(1),
                                                      fwd, hist, QInt(310), today) ]

\* days on both sides of the transition point 27, and both of its neighbours
AuditDaysSet == { 0, 5, 13, 26, 27, 28, 40 }

CallAuditDay ==
    /\ fCall = NoCall
    /\ \E ourOcc \in { Q(2, 5), Q(12, 25), Q(1, 2), Q(16, 25), Q(3, 4), QInt(1) },
          marketOcc \in { QInt(0), Q(1, 5), Q(3, 5), Q(4, 5) },
          ourPrice \in { Q(616, 5), QInt(200), QInt(220), QInt(221) },
          fullAPS \in { Q(4, 5), QInt(1) },
          d \in AuditDaysSet,
          state \in { "HOT", "COLD", "NEUTRAL" } :
          fCall' = [ fn |-> "auditDay",
                     args |-> [ ourOcc |-> ourOcc, ourPrice |-> ourPrice,
                                marketOcc |-> marketOcc, fairMarketPrice |-> QInt(200),
                                daysToArrival |-> d, fullAPS |-> fullAPS,
                                marketState |-> state ],
                     ret |-> auditDay(d, [ ourOcc |-> ourOcc, ourPrice |-> ourPrice,
                                           marketOcc |-> marketOcc,
                                           fairMarketPrice |-> QInt(200) ],
                                      QInt(d), fullAPS, getOperatingMode(state), state) ]

CallAPSDecay ==
    /\ fCall = NoCall
    /\ \E fullAPS \in APSArgSet, d \in 0..MaxDaysToArrival :
          fCall' = [ fn |-> "calculateAPSDecay",
                     args |-> [ fullAPS |-> fullAPS, daysToArrival |-> d ],
                     ret |-> calculateAPSDecay(fullAPS, QInt(d)) ]

InitEngine == ApsIdle /\ MonIdle /\ BellIdle /\ WkIdle /\ RunIdle /\ CallIdle /\ AllIdle
NextEngine ==
    \/ CallPerformanceIndex /\ UNCHANGED <<pCall, pSeen, apsVars, monVars, bellVars, wkVars, runVars, allVars>>
    \/ CallNewAPS /\ UNCHANGED <<pCall, pSeen, apsVars, monVars, bellVars, wkVars, runVars, allVars>>
    \/ CallMinPrice /\ UNCHANGED <<pCall, pSeen, apsVars, monVars, bellVars, wkVars, runVars, allVars>>
    \/ CallMaxPrice /\ UNCHANGED <<pCall, pSeen, apsVars, monVars, bellVars, wkVars, runVars, allVars>>
    \/ CallDeriveADR /\ UNCHANGED <<pCall, pSeen, apsVars, monVars, bellVars, wkVars, runVars, allVars>>
    \/ CallPerformanceMultipliers /\ UNCHANGED <<pCall, pSeen, apsVars, monVars, bellVars, wkVars, runVars, allVars>>
    \/ CallDiagnoseMultipliers /\ UNCHANGED <<pCall, pSeen, apsVars, monVars, bellVars, wkVars, runVars, allVars>>
    \/ CallMarketState /\ UNCHANGED <<pCall, pSeen, apsVars, monVars, bellVars, wkVars, runVars, allVars>>
    \/ CallEarlyDemand /\ UNCHANGED <<pCall, pSeen, apsVars, monVars, bellVars, wkVars, runVars, allVars>>
    \/ CallMarketAlignment /\ UNCHANGED <<pCall, pSeen, apsVars, monVars, bellVars, wkVars, runVars, allVars>>
    \/ CallOperatingMode /\ UNCHANGED <<pCall, pSeen, apsVars, monVars, bellVars, wkVars, runVars, allVars>>
    \/ CallWeeklyReview /\ UNCHANGED <<pCall, pSeen, apsVars, monVars, bellVars, wkVars, runVars, allVars>>
    \/ CallAuditDay /\ UNCHANGED <<pCall, pSeen, apsVars, monVars, bellVars, wkVars, runVars, allVars>>
    \/ CallAPSDecay /\ UNCHANGED <<pCall, pSeen, apsVars, monVars, bellVars, wkVars, runVars, allVars>>
SpecEngine == InitEngine /\ [][NextEngine]_vars

\* a number that no division by zero has produced: neither Infinity nor NaN
NoZeroDivisor(x) == Len(x) = 2 /\ x[2] > 0

\* C15: no call of calculatePerformanceIndex, deriveADR,
\* calculatePerformanceMultipliers, diagnoseErrorForecasting, checkEarlyDemand
\* or checkMarketAlignment with non-negative arguments divides by zero (each
\* quotient returned is a finite number), and determineMarketState with a
\* historical pace of 0 does not divide by it: it decides on a pace ratio of 1.
C15_NoDivisionByZero ==
    /\ fCall.fn \in { "calculatePerformanceIndex", "deriveADR" } => NoZeroDivisor(fCall.ret)
    /\ fCall.fn = "calculatePerformanceMultipliers" =>
          /\ NoZeroDivisor(fCall.ret.occupancy)
          /\ NoZeroDivisor(fCall.ret.revPAR)
          /\ NoZeroDivisor(fCall.ret.adr)
    /\ fCall.fn = "diagnoseErrorForecasting" =>
          /\ NoZeroDivisor(fCall.ret.correctionFactor)
          /\ fCall.args.adr = QInt(0) /\ fCall.ret.type = "CLASSIC_UNDERPRICING" =>
                fCall.ret.correctionFactor = QInt(2)
    /\ fCall.fn = "checkEarlyDemand" => NoZeroDivisor(fCall.ret.multiplier)
    /\ fCall.fn = "checkMarketAlignment" =>
          /\ NoZeroDivisor(fCall.ret.priceGapPercentage)
          /\ NoZeroDivisor(fCall.ret.effectiveAPS)
    /\ (fCall.fn = "determineMarketState"
          /\ fCall.args.historicalOccupancyPace = QInt(0)) =>
          fCall.ret = IF QGe(fCall.args.forwardOccupancy, Q(3, 4)) THEN "HOT"
                      ELSE IF QLe(fCall.args.forwardOccupancy, Q(9, 20)) THEN "COLD"
                      ELSE "NEUTRAL"

\* C15 witness: checkEarlyDemand with a market occupancy of 0 divides by the
\* floor 0.01: 0.58 / 0.01 = 58
C15_Witness ==
    /\ fCall.fn = "checkEarlyDemand"
    /\ fCall.args.marketOcc = QInt(0)
    /\ fCall.args.ourOcc = Q(29, 50)
    /\ fCall.ret.multiplier = QInt(58)

(* ------------------------------------------------------------------------ *)
(* Market state and operating mode                                          *)
(* ------------------------------------------------------------------------ *)

\* the pace ratio as stated: forward occupancy over historical pace, 1 when
\* the historical pace is not positive
PaceRatioOf(fwd, hist) == IF hist[1] > 0 THEN QDiv(fwd, hist) ELSE <<1, 1>>

\* the same ratio as the expression the engine evaluates
PaceRatioDoubleOf(fwd, hist) ==
    IF hist[1] > 0 THEN Over(Num(fwd), Num(hist)) ELSE Num(<<1, 1>>)

HotCondition(fwd, hist) ==
    \/ QGe(fwd, <<3, 4>>)
    \/ RGe(PaceRatioOf(fwd, hist), <<11, 10>>, PaceRatioDoubleOf(fwd, hist), Num(<<11, 10>>))

ColdCondition(fwd, hist) ==
    \/ QLe(fwd, <<9, 20>>)
    \/ RLe(PaceRatioOf(fwd, hist), <<9, 10>>, PaceRatioDoubleOf(fwd, hist), Num(<<9, 10>>))

StateOf(fwd, hist) ==
    IF HotCondition(fwd, hist) THEN "HOT"
    ELSE IF ColdCondition(fwd, hist) THEN "COLD"
    ELSE "NEUTRAL"

\* the stated mode of a market state: name, base discount, maximum discount
ModeOf(state) ==
    IF state = "HOT" THEN <<"Aggressive", <<1, 20>>, <<3, 20>>>>
    ELSE IF state = "COLD" THEN <<"Defensive", <<3, 20>>, <<3, 10>>>>
    ELSE <<"Standard", <<1, 10>>, <<1, 5>>>>

\* the promotion price of day d under the mode of the state
PromoPriceOf(price, state, d) ==
    QMul(price, QSub(<<1, 1>>, QMin(QMul(ModeOf(state)[2], BracketOfDay(d).multiplier),
                                    ModeOf(state)[3])))

\* a weekly review whose state and mode are those of its arguments
ReviewInMode(args, ret, state) ==
    /\ ret.marketState = state
    /\ ret.operatingMode = ModeOf(state)[1]
    /\ \A k \in 1..Len(ret.recommendations) :
          /\ ret.recommendations[k].marketState = state
          /\ ret.recommendations[k].operatingMode = ModeOf(state)[1]
          /\ ret.recommendations[k].type = "APPLY_PROMOTION" =>
                /\ \E d \in 0..13 :
                      ret.recommendations[k].suggestedPrice =
                          PromoPriceOf(args.currentPrice, state, d)
                /\ Len(ret.recommendations) = 14 =>
                      ret.recommendations[k].suggestedPrice =
                          PromoPriceOf(args.currentPrice, state, k - 1)

\* C16: determineMarketState returns HOT whenever forwardOcc >= 0.75 or
\* paceRatio >= 1.10 (also when a COLD condition holds), COLD when no HOT
\* condition holds and forwardOcc <= 0.45 or paceRatio <= 0.90, NEUTRAL
\* otherwise, with paceRatio 1.0 when the historical pace is <= 0;
\* getOperatingMode maps HOT to Aggressive (5% / 15%), COLD to Defensive
\* (15% / 30%) and NEUTRAL to Standard (10% / 20%); runWeeklyBellCurveReview
\* reports that state and that mode and discounts its promotions with it.
C16_MarketStateAndMode ==
    /\ fCall.fn = "determineMarketState" =>
          fCall.ret = StateOf(fCall.args.forwardOccupancy,
                              fCall.args.historicalOccupancyPace)
    /\ fCall.fn = "getOperatingMode" =>
          /\ fCall.ret.name = ModeOf(fCall.args.state)[1]
          /\ fCall.ret.baseDiscount = ModeOf(fCall.args.state)[2]
          /\ fCall.ret.maxDiscount = ModeOf(fCall.args.state)[3]
    /\ fCall.fn = "runWeeklyBellCurveReview" =>
          ReviewInMode(fCall.args, fCall.ret,
                       StateOf(fCall.args.marketForwardOcc, fCall.args.marketHistoricalOcc))

\* C16 witness: a review of a market with forward occupancy 0.80 against a
\* historical pace of 1.0 (pace ratio 0.80, a COLD condition) is HOT and
\* Aggressive; its promotion for today is 200 * (1 - 0.05 * 2) = 180
C16_Witness ==
    /\ fCall.fn = "runWeeklyBellCurveReview"
    /\ fCall.args.marketForwardOcc = <<4, 5>>
    /\ fCall.args.marketHistoricalOcc = <<1, 1>>
    /\ fCall.ret.marketState = "HOT"
    /\ fCall.ret.operatingMode = "Aggressive"
    /\ Len(fCall.ret.recommendations) > 0
    /\ fCall.ret.recommendations[1].type = "APPLY_PROMOTION"
    /\ fCall.ret.recommendations[1].suggestedPrice = <<180, 1>>

(* ------------------------------------------------------------------------ *)
(* Monetary outputs of a run                                                *)
(* ------------------------------------------------------------------------ *)

\* a finite amount of money that is not negative
NonNegative(x) == Len(x) = 2 /\ x[2] > 0 /\ x[1] >= 0

\* every input of the run that is a number is non-negative
NonNegativeInputs ==
    /\ NonNegative(opts.previousAPS) /\ NonNegative(opts.currentTargetRent)
    /\ \A f \in MarketDataFields : NonNegative(report.market[f])
    /\ \A f \in { "myRevPAR", "myOccupancy", "lastYearLowestSold", "currentPrice" } :
          NonNegative(report.prop[f])

\* C17: a run on non-negative inputs reports no negative amount: annualTarget,
\* minPrice, maxPrice, dynamicCentroid, basePrice, previousTargetRent,
\* newTargetRent and the suggestedPrice of every recommendation, of the weekly
\* schedule and of the promotion scan, are all >= 0.
C17_MonetaryOutputsNonNegative ==
    (Reported /\ NonNegativeInputs) =>
        /\ NonNegative(report.annualTarget)
        /\ NonNegative(report.minPrice)
        /\ NonNegative(report.maxPrice)
        /\ NonNegative(report.centroid)
        /\ NonNegative(report.basePrice)
        /\ NonNegative(report.monthly.correction.previousTargetRent)
        /\ NonNegative(report.monthly.correction.newTargetRent)
        /\ \A k \in 1..Len(report.weekly.recommendations) :
              NonNegative(report.weekly.recommendations[k].suggestedPrice)
        /\ \A k \in 1..Len(report.extended) :
              NonNegative(report.extended[k].suggestedPrice)

\* C17 witness: a run on live data whose weekly schedule holds promotions and
\* whose promotion scan found a deal, all priced above 0
C17_Witness ==
    /\ Reported /\ NonNegativeInputs
    /\ report.marketLive
    /\ report.weekly.counts.promotions > 0
    /\ Len(report.extended) > 0
    /\ QGt(report.weekly.recommendations[1].suggestedPrice, <<0, 1>>)
    /\ QGt(report.annualTarget, <<0, 1>>)

(* ------------------------------------------------------------------------ *)
(* Core formulas against their reference definitions                        *)
(* ------------------------------------------------------------------------ *)

\* clamp(x, lo, hi) on exact rationals, by comparison
ClampOf(x, lo, hi) == IF QLt(x, lo) THEN lo ELSE IF QGt(x, hi) THEN hi ELSE x

\* C18: performanceIndex = myRevPAR / marketRevPAR when marketRevPAR > 0, else
\* 1.0; newAPS = clamp(0.70 * previousAPS + 0.30 * index, 0.80, 1.60);
\* minPrice = max(market 20th percentile ADR, last year's lowest sold);
\* maxPrice = peakFutureADR * newAPS * 1.25.  So (115, 100, 1.0) gives 1.15
\* and 1.045, (120, 110) gives 120 and (300, 1.045) gives 391.875.
C18_CoreFormulas ==
    /\ fCall.fn = "calculatePerformanceIndex" =>
          /\ fCall.args.marketRevPAR[1] > 0 =>
                QMul(fCall.ret, fCall.args.marketRevPAR) = fCall.args.myRevPAR
          /\ fCall.args.marketRevPAR[1] <= 0 => fCall.ret = <<1, 1>>
          /\ fCall.args = [ myRevPAR |-> <<115, 1>>, marketRevPAR |-> <<100, 1>> ] =>
                fCall.ret = <<23, 20>>
    /\ fCall.fn = "calculateNewAPS" =>
          /\ fCall.ret = ClampOf(QAdd(QMul(<<7, 10>>, fCall.args.previousAPS),
                                      QMul(<<3, 10>>, fCall.args.index)),
                                 <<4, 5>>, <<8, 5>>)
          /\ fCall.args = [ previousAPS |-> <<1, 1>>, index |-> <<23, 20>> ] =>
                fCall.ret = <<209, 200>>
    /\ fCall.fn = "calculateMinPrice" =>
          /\ QGe(fCall.ret, fCall.args.market20thPctl)
          /\ QGe(fCall.ret, fCall.args.lastYearLowest)
          /\ fCall.ret \in { fCall.args.market20thPctl, fCall.args.lastYearLowest }
          /\ fCall.args = [ market20thPctl |-> <<120, 1>>, lastYearLowest |-> <<110, 1>> ] =>
                fCall.ret = <<120, 1>>
    /\ fCall.fn = "calculateMaxPrice" =>
          /\ fCall.ret = QMul(fCall.args.peakFutureADR, QMul(fCall.args.aps, <<5, 4>>))
          /\ fCall.args = [ peakFutureADR |-> <<300, 1>>, aps |-> <<209, 200>> ] =>
                fCall.ret = <<3135, 8>>

\* C18 witness: calculateMaxPrice(300, 1.045) = 391.875
C18_Witness ==
    /\ fCall.fn = "calculateMaxPrice"
    /\ fCall.args = [ peakFutureADR |-> <<300, 1>>, aps |-> <<209, 200>> ]
    /\ fCall.ret = <<3135, 8>>

(* ------------------------------------------------------------------------ *)
(* Comparable tiers and the availability of property details                *)
(* ------------------------------------------------------------------------ *)

\* the tiers fetched so far, in issue order
TiersFetched == [ j \in 1..Len(fetchLog) |-> fetchLog[j].tier ]

\* C19: a run with property details ends on Strict, Standard or Broad: it
\* starts at Strict, fetches Standard only after Strict returned fewer than 10
\* comps and Broad only after Standard returned fewer than 10; the reported
\* tier is Whole Market exactly when no property details were available, and
\* then the only fetch is the one without filters.
C19_ThreeTiersOrWholeMarket ==
    /\ Reported => (report.compTier = "Whole Market" <=> details = Undefined)
    /\ (Reported /\ details # Undefined) =>
          /\ report.compTier \in { "Strict", "Standard", "Broad" }
          /\ TiersFetched \in { <<"Strict">>, <<"Strict", "Standard">>,
                                 <<"Strict", "Standard", "Broad">> }
          /\ report.compTier = TiersFetched[Len(fetchLog)]
    /\ (Reported /\ details = Undefined) => TiersFetched = <<"Whole Market">>
    /\ \A j \in 2..Len(fetchLog) :
          /\ fetchLog[j].tier \in { "Standard", "Broad" }
          /\ ReturnedTooFew(fetchLog[j - 1])

\* C19 witness: the property-details request of a configured run failed; the
\* run made one unfiltered fetch and reported Whole Market
C19_Witness ==
    /\ Reported
    /\ opts.hospConfigured
    /\ details = Undefined
    /\ report.compTier = "Whole Market"
    /\ TiersFetched = <<"Whole Market">>
    /\ fetchLog[1].filters = Undefined

(* ------------------------------------------------------------------------ *)
(* fetchMarketDataSafe: the two concurrent requests                         *)
(* ------------------------------------------------------------------------ *)

\* the step in which a fetchMarketDataSafe call starts
FetchStarts == Len(fetchLog') > Len(fetchLog)

\* both requests of a starting call go out in that step, neither settled
IssuedTogether ==
    FetchStarts => requests' = [ monthly |-> Pending, weekly |-> Pending ]

\* the record a returning call hands back is all live or all fallback
AllLiveOrAllFallback ==
    FetchReturns =>
        \/ /\ marketResult'.live
           /\ requests.monthly.status = "fulfilled"
           /\ requests.weekly.status = "fulfilled"
           /\ marketResult'.data =
                 liveMarketData(requests.monthly.value, requests.weekly.value)
           /\ marketResult'.data.marketRevPAR = requests.monthly.value.marketRevPAR
           /\ marketResult'.data.avgFutureMarketADR = requests.weekly.value.futureAdr
        \/ /\ ~marketResult'.live
           /\ requests.monthly.status = "rejected" \/ requests.weekly.status = "rejected"
           /\ marketResult'.data = getFallbackMarketData

\* C20 as stated: the two requests are issued together, a call returns its
\* MarketData only after both requests have completed, and the record is all
\* live or all fallback.
C20_Original ==
    /\ [][IssuedTogether]_vars
    /\ [][FetchReturns => /\ requests.monthly.status # "pending"
                          /\ requests.weekly.status # "pending"]_vars
    /\ [][AllLiveOrAllFallback]_vars

\* C20: fetchMarketDataSafe issues the monthly and the weekly request
\* together; it returns the live record (live = true), built from the two
\* responses, only when both requests have succeeded, and the fallback record
\* (live = false) when a request has failed, which can be while the other
\* request is still pending; the record is never a mixture of the two.  No
\* request is still pending when the live record is returned.
C20_AllLiveOrAllFallback ==
    /\ [][IssuedTogether]_vars
    /\ [][AllLiveOrAllFallback]_vars
    /\ [][(FetchReturns /\ marketResult'.live) =>
             /\ requests.monthly.status # "pending"
             /\ requests.weekly.status # "pending"]_vars

\* C20 witness: the only call of a run returned the fallback record when its
\* monthly request had failed and its weekly request was still pending
C20_Witness ==
    /\ pc = "awaitPropertyStats"
    /\ Len(fetchLog) = 1
    /\ fetchLog[1].done
    /\ fetchLog[1].settled = [ monthly |-> "rejected", weekly |-> "pending" ]
    /\ ~fetchLog[1].result.live
    /\ fetchLog[1].result.data = getFallbackMarketData
    /\ marketResult = fetchLog[1].result

(* ------------------------------------------------------------------------ *)
(* auditDay, front half                                                     *)
(* ------------------------------------------------------------------------ *)

\* the decay multiplier as stated: 1 from day 27 on, else 1 - ((27 - d)/27) * 0.30
DecayMultiplierOf(d) ==
    IF d >= 27 THEN <<1, 1>> ELSE QSub(<<1, 1>>, QMul(Q(27 - d, 27), <<3, 10>>))

\* fairMarketPrice * effectiveAPS of an auditDay call
ApsAdjustedPriceOf(args) ==
    QMul(args.fairMarketPrice, QMul(args.fullAPS, DecayMultiplierOf(args.daysToArrival)))

\* auditDay on a front-half day, as stated
FrontHalfAudit(args, ret) ==
    IF KeepsPace(args.ourOcc, args.marketOcc)
    THEN ret.type = "null"
    ELSE IF RGt(args.ourPrice, QMul(<<11, 10>>, ApsAdjustedPriceOf(args)),
                Num(args.ourPrice),
                maxJustifiablePriceDouble(args.fairMarketPrice, args.fullAPS,
                                          QInt(args.daysToArrival)))
    THEN /\ ret.type = "PRICE_DROP"
         /\ ret.suggestedPrice = ApsAdjustedPriceOf(args)
    ELSE /\ ret.type = "APPLY_PROMOTION"
         /\ ret.suggestedPrice =
               PromoPriceOf(args.ourPrice, args.marketState, args.daysToArrival)

\* C21: on a FRONT_HALF day (daysToArrival <= 27) auditDay emits nothing when
\* ourOcc >= 0.80 * marketOcc; otherwise PRICE_DROP to apsAdjustedPrice =
\* fairMarketPrice * effectiveAPS iff ourPrice > 1.10 * apsAdjustedPrice, else
\* APPLY_PROMOTION at ourPrice * (1 - finalDiscount) with the sliding-scale
\* discount of the operating mode for that day.
C21_FrontHalfAudit ==
    (fCall.fn = "auditDay" /\ fCall.args.daysToArrival <= 27) =>
        /\ FrontHalfAudit(fCall.args, fCall.ret)
        /\ fCall.ret.type # "null" =>
              /\ fCall.ret.phase = "FRONT_HALF"
              /\ fCall.ret.currentPrice = fCall.args.ourPrice

\* C21 witness: day 5 of a NEUTRAL market, occupancy 0.40 against 0.60, price
\* 221 against 200 * 0.8 * (1 - (22/27) * 0.30): a PRICE_DROP to that price
C21_Witness ==
    /\ fCall.fn = "auditDay"
    /\ fCall.args.daysToArrival = 5
    /\ fCall.args.ourOcc = <<2, 5>> /\ fCall.args.marketOcc = <<3, 5>>
    /\ fCall.args.ourPrice = <<221, 1>> /\ fCall.args.fullAPS = <<4, 5>>
    /\ fCall.ret.type = "PRICE_DROP"
    /\ fCall.ret.suggestedPrice = Q(1088, 9)

(* ------------------------------------------------------------------------ *)
(* auditDay, back half                                                      *)
(* ------------------------------------------------------------------------ *)

\* ourOcc / max(marketOcc, 0.01)
DemandMultiplierOf(args) ==
    QDiv(args.ourOcc, IF QLt(args.marketOcc, <<1, 100>>) THEN <<1, 100>> ELSE args.marketOcc)

\* 0.20 + min((m - 2.5) / 2.5, 1) * 0.05
IncreasePctOf(m) ==
    QAdd(<<1, 5>>, QMul(QMin(QDiv(QSub(m, <<5, 2>>), <<5, 2>>), <<1, 1>>), <<1, 20>>))

\* C22: on a BACK_HALF day (daysToArrival > 27) auditDay emits a RATE_INCREASE
\* iff ourOcc / max(marketOcc, 0.01) > 2.5 (exactly 2.5 does not fire); the
\* increase is 0.20 + min((multiplier - 2.5)/2.5, 1) * 0.05, which lies in
\* [20%, 25%] and is 25% from a multiplier of 5.0 on; suggestedPrice =
\* ourPrice * (1 + pct).
C22_BackHalfAudit ==
    (fCall.fn = "auditDay" /\ fCall.args.daysToArrival > 27) =>
        /\ fCall.ret.type \in { "null", "RATE_INCREASE" }
        /\ fCall.ret.type = "RATE_INCREASE" <=>
              QGt(DemandMultiplierOf(fCall.args), <<5, 2>>)
        /\ fCall.ret.type = "RATE_INCREASE" =>
              /\ fCall.ret.suggestedPrice =
                    QMul(fCall.args.ourPrice,
                         QAdd(<<1, 1>>, IncreasePctOf(DemandMultiplierOf(fCall.args))))
              /\ QGe(fCall.ret.suggestedPrice, QMul(fCall.args.ourPrice, <<6, 5>>))
              /\ QLe(fCall.ret.suggestedPrice, QMul(fCall.args.ourPrice, <<5, 4>>))
              /\ QGe(DemandMultiplierOf(fCall.args), <<5, 1>>) =>
                    fCall.ret.suggestedPrice = QMul(fCall.args.ourPrice, <<5, 4>>)
              /\ fCall.ret.phase = "BACK_HALF"

\* C22 witness: day 28, occupancy 0.75 against 0.20 (3.75 times the market):
\* +22.5%, 200 becomes 245
C22_Witness ==
    /\ fCall.fn = "auditDay"
    /\ fCall.args.daysToArrival = 28
    /\ fCall.args.ourOcc = <<3, 4>> /\ fCall.args.marketOcc = <<1, 5>>
    /\ fCall.args.ourPrice = <<200, 1>>
    /\ fCall.ret.type = "RATE_INCREASE"
    /\ fCall.ret.suggestedPrice = <<245, 1>>

(* ------------------------------------------------------------------------ *)
(* APS decay                                                                *)
(* ------------------------------------------------------------------------ *)

\* C23: calculateAPSDecay applies no decay (multiplier 1.0, decayApplied
\* false) for daysToArrival >= 27 and otherwise returns effectiveAPS =
\* fullAPS * (1 - ((27 - d)/27) * 0.30); for d in 0..27 the decay multiplier
\* lies in [0.70, 1.0], is 0.70 at d = 0 and does not decrease from d to d + 1.
C23_APSDecay ==
    fCall.fn = "calculateAPSDecay" =>
        /\ fCall.args.daysToArrival >= 27 =>
              /\ fCall.ret.decayMultiplier = <<1, 1>>
              /\ ~fCall.ret.decayApplied
              /\ fCall.ret.effectiveAPS = fCall.args.fullAPS
        /\ fCall.args.daysToArrival < 27 =>
              /\ fCall.ret.decayApplied
              /\ fCall.ret.effectiveAPS =
                    QMul(fCall.args.fullAPS,
                         QSub(<<1, 1>>, QMul(Q(27 - fCall.args.daysToArrival, 27), <<3, 10>>)))
        /\ fCall.args.daysToArrival <= 27 =>
              /\ QGe(fCall.ret.decayMultiplier, <<7, 10>>)
              /\ QLe(fCall.ret.decayMultiplier, <<1, 1>>)
              /\ QLe(fCall.ret.decayMultiplier,
                     calculateAPSDecay(fCall.args.fullAPS,
                                       QInt(fCall.args.daysToArrival + 1)).decayMultiplier)
        /\ fCall.args.daysToArrival = 0 => fCall.ret.decayMultiplier = <<7, 10>>

\* C23 witness: at 9 days to arrival the multiplier is 1 - (18/27) * 0.30 =
\* 0.80, so an APS of 1.045 acts as 0.836
C23_Witness ==
    /\ fCall.fn = "calculateAPSDecay"
    /\ fCall.args.daysToArrival = 9
    /\ fCall.args.fullAPS = <<209, 200>>
    /\ fCall.ret.decayApplied
    /\ fCall.ret.decayMultiplier = <<4, 5>>
    /\ fCall.ret.effectiveAPS = <<209, 250>>

(* ------------------------------------------------------------------------ *)
(* Monthly correction: its base and its direction                           *)
(* ------------------------------------------------------------------------ *)

\* the base of the correction as stated
EffectiveBaseOf(call) ==
    IF call.currentTargetRent[1] > 0
    THEN call.currentTargetRent
    ELSE QMul(call.marketAnnualRevPAR, call.currentAPS)

\* C24: runMonthlyErrorForecasting corrects currentTargetRent when it is > 0
\* and marketAnnualRevPAR * currentAPS when it is <= 0; previousTargetRent is
\* that base and newTargetRent = base * appliedMultiplier.
C24_EffectiveTargetBase ==
    mCall.fn = "runMonthlyErrorForecasting" =>
        /\ mCall.ret.correction.previousTargetRent = EffectiveBaseOf(mCall)
        /\ mCall.ret.correction.newTargetRent =
              QMul(EffectiveBaseOf(mCall), mCall.ret.correction.appliedMultiplier)

\* C24 witness: no target yet, a market of 50000 a year at APS 0.8: the
\* overpricing cut of 10% is taken from 40000
C24_Witness ==
    /\ mCall.fn = "runMonthlyErrorForecasting"
    /\ mCall.currentTargetRent = <<0, 1>>
    /\ mCall.marketAnnualRevPAR = <<50000, 1>>
    /\ mCall.currentAPS = <<4, 5>>
    /\ mCall.ret.diagnosis.type = "CLASSIC_OVERPRICING"
    /\ mCall.ret.correction.previousTargetRent = <<40000, 1>>
    /\ mCall.ret.correction.newTargetRent = <<36000, 1>>

\* C25 as stated: the adjustmentType of a monthly review matches the applied
\* multiplier: INCREASE implies appliedMultiplier >= 1 and newTargetRent >=
\* previousTargetRent, DECREASE implies appliedMultiplier <= 1, NO_CHANGE
\* implies appliedMultiplier = 1.
C25_DirectionMatchesEffect ==
    mCall.fn = "runMonthlyErrorForecasting" =>
        /\ mCall.ret.correction.adjustmentType = "INCREASE" =>
              /\ QGe(mCall.ret.correction.appliedMultiplier, <<1, 1>>)
              /\ QGe(mCall.ret.correction.newTargetRent,
                     mCall.ret.correction.previousTargetRent)
        /\ mCall.ret.correction.adjustmentType = "DECREASE" =>
              QLe(mCall.ret.correction.appliedMultiplier, <<1, 1>>)
        /\ mCall.ret.correction.adjustmentType = "NO_CHANGE" =>
              mCall.ret.correction.appliedMultiplier = <<1, 1>>

(* ------------------------------------------------------------------------ *)
(* The weekly schedule as a whole                                           *)
(* ------------------------------------------------------------------------ *)

\* C26: every day runWeeklyBellCurveReview audits is FRONT_HALF (offsets
\* 0..13 lie below the transition point 27): backHalfDays stays 0, every
\* audited day counts as front half, no RATE_INCREASE is emitted, and the
\* result reports backHalfDays = 0, frontHalfDays = 14, rateIncreases = 0.
C26_AllAuditedDaysFrontHalf ==
    /\ wLoop.backHalfDays = 0
    /\ wLoop.frontHalfDays = wLoop.i
    /\ \A k \in 1..Len(wLoop.recommendations) :
          /\ wLoop.recommendations[k].type # "RATE_INCREASE"
          /\ wLoop.recommendations[k].phase = "FRONT_HALF"
    /\ wRet # Undefined =>
          /\ wRet.bellCurve.backHalfDays = 0
          /\ wRet.bellCurve.frontHalfDays = 14
          /\ wRet.bellCurve.transitionPoint = <<27, 1>>
          /\ wRet.counts.rateIncreases = 0

\* C26 witness: a finished review of a property at 0.90 occupancy in a market
\* at 0.30 (three times the market, early demand had the days been back half):
\* 14 front-half days, nothing recommended
C26_Witness ==
    /\ wRet # Undefined
    /\ wArgs.propertyOcc = <<9, 10>>
    /\ wArgs.marketForwardOcc = <<3, 10>>
    /\ wRet.bellCurve.frontHalfDays = 14
    /\ wRet.bellCurve.backHalfDays = 0
    /\ wRet.recommendations = <<>>

\* C27: the schedule runWeeklyBellCurveReview returns is all or nothing: no
\* entry when propertyOcc >= 0.80 * marketForwardOcc, otherwise exactly 14
\* entries, one PRICE_DROP or APPLY_PROMOTION for each day 0..13 (at every
\* point of the loop the list holds no entry or one for each day audited so
\* far); counts.total = counts.priceDrops + counts.promotions +
\* counts.rateIncreases.
C27_ScheduleAllOrNothing ==
    /\ Len(wLoop.recommendations) =
          IF KeepsPace(wArgs.propertyOcc, wArgs.marketForwardOcc) THEN 0 ELSE wLoop.i
    /\ wRet # Undefined =>
          /\ Len(wRet.recommendations) \in { 0, 14 }
          /\ Len(wRet.recommendations) = 0 <=>
                KeepsPace(wArgs.propertyOcc, wArgs.marketForwardOcc)
          /\ \A k \in 1..Len(wRet.recommendations) :
                wRet.recommendations[k].type \in { "PRICE_DROP", "APPLY_PROMOTION" }
          /\ wRet.counts.total = Len(wRet.recommendations)
          /\ wRet.counts.total =
                wRet.counts.priceDrops + wRet.counts.promotions + wRet.counts.rateIncreases

\* C27 witness: a finished review with 14 entries, 6 price drops and 8
\* promotions
C27_Witness ==
    /\ wRet # Undefined
    /\ wRet.counts.total = 14
    /\ wRet.counts.priceDrops = 6
    /\ wRet.counts.promotions = 8
    /\ wRet.counts.rateIncreases = 0

\* C28: in the schedule of a review, at every point of its day loop, no
\* PRICE_DROP entry follows an APPLY_PROMOTION entry: the price drops are a
\* prefix of the window and the promotions the remaining suffix.
C28_DropsBeforePromotions ==
    \A j, k \in 1..Len(wLoop.recommendations) :
        (j < k /\ wLoop.recommendations[j].type = "APPLY_PROMOTION") =>
            wLoop.recommendations[k].type = "APPLY_PROMOTION"

\* C28 witness: the loop has audited day 6 of a review at price 250 against a
\* market ADR of 300 and APS 1.0: days 0..5 are price drops, day 6 is the
\* first promotion
C28_Witness ==
    /\ wRet = Undefined
    /\ wLoop.i = 7
    /\ wArgs.currentPrice = <<250, 1>>
    /\ wArgs.marketAvgADR = <<300, 1>>
    /\ wArgs.fullAPS = <<1, 1>>
    /\ Len(wLoop.recommendations) = 7
    /\ wLoop.recommendations[6].type = "PRICE_DROP"
    /\ wLoop.recommendations[7].type = "APPLY_PROMOTION"

\* the brackets of the table whose day range contains a whole number of days
BracketsContaining(d) ==
    { k \in 1..Len(SLIDING_SCALE_BRACKETS) :
        /\ QGe(QInt(d), SLIDING_SCALE_BRACKETS[k].minDays)
        /\ QLe(QInt(d), SLIDING_SCALE_BRACKETS[k].maxDays) }

\* the whole days after day d that the harness range covers
LaterDays(d) == (d + 1)..(MaxDaysToArrival + 1)

\* C29: the sliding-scale brackets partition the non-negative whole days:
\* the day of every call with a whole number of days lies in exactly one
\* bracket; the multiplier does not increase with the days to arrival, so
\* for the same non-negative baseDiscount and the same maxDiscount the
\* finalDiscount of every later whole day is at most the one returned.
C29_BracketsPartitionDays ==
    (bCall # NoCall /\ bCall.fn = "calculateSlidingScaleDiscount"
        /\ bCall.daysToArrival[2] = 1 /\ QGe(bCall.baseDiscount, QInt(0))) =>
        LET d == bCall.daysToArrival[1]
        IN  /\ Cardinality(BracketsContaining(d)) = 1
            /\ \A k \in BracketsContaining(d) :
                   bCall.ret.multiplier = SLIDING_SCALE_BRACKETS[k].multiplier
            /\ \A e \in LaterDays(d) :
                   LET later == calculateSlidingScaleDiscount(bCall.baseDiscount,
                                    bCall.maxDiscount, QInt(e))
                   IN  /\ Cardinality(BracketsContaining(e)) = 1
                       /\ QLe(later.multiplier, bCall.ret.multiplier)
                       /\ QLe(later.finalDiscount, bCall.ret.finalDiscount)

\* a call on day 7, the last day of the 1.5x bracket, whose discount is
\* strictly above the one the same inputs get on day 8
C29_Witness ==
    /\ bCall # NoCall /\ bCall.fn = "calculateSlidingScaleDiscount"
    /\ bCall.daysToArrival = QInt(7)
    /\ bCall.ret.multiplier = Q(3, 2)
    /\ bCall.ret.bracketLabel = "4-7d (1.5x)"
    /\ QGt(bCall.baseDiscount, QInt(0))
    /\ QLt(calculateSlidingScaleDiscount(bCall.baseDiscount, bCall.maxDiscount,
                                          QInt(8)).finalDiscount,
           bCall.ret.finalDiscount)

(* ------------------------------------------------------------------------ *)
(* run-all-properties.ts: one generateReport run per listed property        *)
(* ------------------------------------------------------------------------ *)

MaxProperties == 3

\* the ids of the properties listProperties may return
PropertyIdSet == { "prop-a", "prop-b" }

\* what listProperties may resolve to: up to MaxProperties listed properties
PropertyListSet ==
    UNION { [ 1..n -> PropertyIdSet ] : n \in 0..MaxProperties }

\* a report generateReport computed from the engine; its values are those of
\* the generateReport run and play no part in the loop
computedReport == [ kind |-> "report" ]

\* the strings generateReport may resolve to: the text of its market guard or
\* a computed report
GenerateReportReturns == { noMarketError, computedReport }

\* const properties = await listProperties(HOSPITABLE_CONFIG) resolves
RA_ListResolved ==
    /\ raPc = "listing"
    /\ \E ps \in PropertyListSet : properties' = ps
    /\ raLoop' = runAllLoopInit
    /\ raPc' = "loop"

\* listProperties rejects: main().catch logs the error and exits with 1
RA_ListRejected ==
    /\ raPc = "listing"
    /\ raPc' = "fatal"
    /\ UNCHANGED <<properties, raLoop>>

\* the try block of iteration i: generateReport resolved, the string is
\* printed and success++
RA_ReportResolved ==
    /\ raPc = "loop"
    /\ raLoop.i < Len(properties)
    /\ \E r \in GenerateReportReturns :
          raLoop' = [ raLoop EXCEPT
                        !.i = @ + 1,
                        !.success = @ + 1,
                        !.processed = Append(@, [ id |-> properties[raLoop.i + 1],
                                                  outcome |-> "resolved",
                                                  report |-> r ]) ]
    /\ UNCHANGED <<raPc, properties>>

\* the catch block of iteration i: generateReport rejected, the message is
\* printed and failed++
RA_ReportRejected ==
    /\ raPc = "loop"
    /\ raLoop.i < Len(properties)
    /\ raLoop' = [ raLoop EXCEPT
                     !.i = @ + 1,
                     !.failed = @ + 1,
                     !.processed = Append(@, [ id |-> properties[raLoop.i + 1],
                                               outcome |-> "rejected",
                                               report |-> Undefined ]) ]
    /\ UNCHANGED <<raPc, properties>>

\* the loop condition i < properties.length fails: the COMPLETE line
RA_Complete ==
    /\ raPc = "loop"
    /\ raLoop.i = Len(properties)
    /\ raPc' = "complete"
    /\ UNCHANGED <<properties, raLoop>>

InitAll ==
    /\ ApsIdle /\ MonIdle /\ BellIdle /\ WkIdle /\ RunIdle /\ CallIdle
    /\ raPc = "listing" /\ properties = Undefined /\ raLoop = runAllLoopInit
NextAll ==
    \/ RA_ListResolved /\ UNCHANGED <<callVars, apsVars, monVars, bellVars, wkVars, runVars>>
    \/ RA_ListRejected /\ UNCHANGED <<callVars, apsVars, monVars, bellVars, wkVars, runVars>>
    \/ RA_ReportResolved /\ UNCHANGED <<callVars, apsVars, monVars, bellVars, wkVars, runVars>>
    \/ RA_ReportRejected /\ UNCHANGED <<callVars, apsVars, monVars, bellVars, wkVars, runVars>>
    \/ RA_Complete /\ UNCHANGED <<callVars, apsVars, monVars, bellVars, wkVars, runVars>>
SpecAll == InitAll /\ [][NextAll]_vars

\* the positions of the processed list whose run computed an engine report
ComputedReports ==
    { k \in 1..Len(raLoop.processed) :
        /\ raLoop.processed[k].outcome = "resolved"
        /\ raLoop.processed[k].report.kind = "report" }

\* C30 as stated: when run-all-properties completes, the listed properties
\* have been processed once each in list order whatever the earlier outcomes,
\* success + failed is the number of listed properties, and success counts
\* exactly the properties for which generateReport computed an engine report
\* (a run that returned the 'No market UUID available' text is in failed).
C30_SuccessCountsComputedReports ==
    raPc = "complete" =>
        /\ Len(raLoop.processed) = Len(properties)
        /\ \A k \in 1..Len(properties) : raLoop.processed[k].id = properties[k]
        /\ raLoop.success + raLoop.failed = Len(properties)
        /\ raLoop.success = Cardinality(ComputedReports)
        /\ raLoop.failed = Len(properties) - Cardinality(ComputedReports)

====
